---- MODULE Spec2Model ----
(***************************************************************************)
(* A model of the query-normalization layer of datadog-cli: the live tail  *)
(* loop (tailLogs) and the time-range helpers (parseTimeRange,             *)
(* parseRelativeTime, parseRelativeTimeToUnix).                            *)
(*                                                                         *)
(* Instants.  A JavaScript Date holds milliseconds counted from 1970.  TLC *)
(* integers are 32 bits wide, so an instant is held here as milliseconds   *)
(* counted from 2024-01-01T00:00:00.000Z; toISOString and DateParse carry  *)
(* the offset, and cover December 2023 and January 2024.                   *)
(*                                                                         *)
(* Strings.  A string is a sequence of one-character strings, "" is <<>>.  *)
(* The ids of log records are the exception: the empty id "" is 0 and the  *)
(* n-th distinct non-empty id is n.                                        *)
(***************************************************************************)
EXTENDS Integers, Sequences, FiniteSets, TLC

VARIABLES
    \* ---- tailLogs (src/unnamed/part_001:218-282) ----
    seenIds,        \* Set<string>, in insertion order: a sequence without repeats
    lastTimestamp,  \* the watermark, an ISO string
    running,        \* the flag stop() clears
    hasOnError,     \* options.onError is supplied
    timers,         \* polls armed by setTimeout and not yet fired
    inflight,       \* polls awaiting logsApi.listLogs
    polls,          \* poll cycles the bulk backend has answered (capped by MaxBulkPolls)
    nextId,         \* the backend: the next id it has never returned (bulk), or never held (store)
    cycle,          \* what the last finished poll cycle did (cleared when a query is issued)
    onLogIds,       \* the ids of the records options.onLog was called with so far
    \* ---- parseTimeRange (part_001:596-634, output.ts:427-465, part_000:112-146) ----
    call            \* the last parseTimeRange call: its inputs and its result

tailVars == <<seenIds, lastTimestamp, running, hasOnError, timers, inflight, polls, nextId, cycle, onLogIds>>
vars == <<seenIds, lastTimestamp, running, hasOnError, timers, inflight, polls, nextId, cycle, onLogIds, call>>

-----------------------------------------------------------------------------
(* Bounds of the model *)

\* longest response of the small backend
MaxResp == 2
\* pages of new records the bulk backend answers one session with
MaxBulkPolls == 103

-----------------------------------------------------------------------------
(* JavaScript strings and dates *)

DigitChars == <<"0", "1", "2", "3", "4", "5", "6", "7", "8", "9">>

Digit(n) == DigitChars[n + 1]

IsDigit(c) == c \in {"0", "1", "2", "3", "4", "5", "6", "7", "8", "9"}

DigitValue(c) == CHOOSE n \in 0..9 : DigitChars[n + 1] = c

\* the UTF-16 code unit of a character: the order JavaScript compares strings by
CharCode ==
    [c \in {" ", "+", "-", ".", ":", "T", "Z", "d", "h", "m", "s", "x"} |->
        CASE c = " " -> 32 [] c = "+" -> 43 [] c = "-" -> 45 [] c = "." -> 46
          [] c = ":" -> 58 [] c = "T" -> 84 [] c = "Z" -> 90 [] c = "d" -> 100
          [] c = "h" -> 104 [] c = "m" -> 109 [] c = "s" -> 115 [] c = "x" -> 120]
      @@ [c \in {"0", "1", "2", "3", "4", "5", "6", "7", "8", "9"} |-> 48 + DigitValue(c)]

\* a > b on strings: the first differing code unit decides, a proper prefix is smaller
RECURSIVE StrGTFrom(_, _, _)
StrGTFrom(a, b, i) ==
    IF i > Len(a) THEN FALSE
    ELSE IF i > Len(b) THEN TRUE
    ELSE IF a[i] = b[i] THEN StrGTFrom(a, b, i + 1)
    ELSE CharCode[a[i]] > CharCode[b[i]]

StrGT(a, b) == StrGTFrom(a, b, 1)

StrGE(a, b) == a = b \/ StrGT(a, b)

MsPerSecond == 1000
MsPerMinute == 60 * 1000
MsPerHour == 60 * 60 * 1000
MsPerDay == 24 * 60 * 60 * 1000

\* Date.prototype.toISOString: YYYY-MM-DDTHH:mm:ss.sssZ
toISOString(t) ==
    LET day == t \div MsPerDay
        dd  == IF day >= 0 THEN day + 1 ELSE 32 + day
        hh  == (t % MsPerDay) \div MsPerHour
        mm  == (t % MsPerHour) \div MsPerMinute
        ss  == (t % MsPerMinute) \div MsPerSecond
        ms  == t % MsPerSecond
    IN  (IF day >= 0 THEN <<"2", "0", "2", "4", "-", "0", "1", "-">>
                     ELSE <<"2", "0", "2", "3", "-", "1", "2", "-">>)
        \o <<Digit(dd \div 10), Digit(dd % 10), "T", Digit(hh \div 10), Digit(hh % 10), ":",
             Digit(mm \div 10), Digit(mm % 10), ":", Digit(ss \div 10), Digit(ss % 10), ".",
             Digit(ms \div 100), Digit((ms \div 10) % 10), Digit(ms % 10), "Z">>

\* the clock when the model starts: 2024-01-15T12:00:00.000Z
StartInstant == 14 * MsPerDay + 12 * MsPerHour

-----------------------------------------------------------------------------
(* tailLogs *)

\* the page size poll asks the backend for
PageLimit == 100
\* seenIds is cut when it holds more ids than this
SeenIdsMax == 10000
\* and this many of the newest ids are kept
SeenIdsKeep == 5000

\* the raw log of the backend: id and attributes.timestamp are optional
RawLog(hasId, id, hasTs, ts) == [hasId |-> hasId, id |-> id, hasTs |-> hasTs, ts |-> ts]

\* normalizeLog, the two fields the tail reads: id ?? "" and timestamp?.toISOString() ?? ""
normalizeLog(log) ==
    [id        |-> IF log.hasId THEN log.id ELSE 0,
     timestamp |-> IF log.hasTs THEN toISOString(log.ts) ELSE <<>>]

Range(s) == {s[i] : i \in 1..Len(s)}

\* a watermark that follows every record, whatever its timestamp
advanceWatermarkAlways(timestamp, last) == timestamp

\* if (normalized.timestamp > lastTimestamp) lastTimestamp = normalized.timestamp
advanceWatermark(timestamp, last) ==
    IF StrGT(timestamp, last) THEN timestamp ELSE last

\* one turn of the for loop of poll, for the record at position i. st holds
\* seenIds (seq, with members the set of its ids), lastTimestamp, the records
\* handed to onLog, and threw: onLog raised, which leaves the loop. onLog raises
\* on the record at position raiseAt when it is called for it.
loopTurn(st, log, i, raiseAt) ==
    LET normalized == normalizeLog(log) IN
    IF normalized.id \in st.members
    THEN st
    ELSE [seq           |-> Append(st.seq, normalized.id),
          members       |-> st.members \cup {normalized.id},
          lastTimestamp |-> IF i = raiseAt THEN st.lastTimestamp
                            ELSE advanceWatermark(normalized.timestamp, st.lastTimestamp),
          delivered     |-> Append(st.delivered, normalized),
          threw         |-> i = raiseAt]

\* the for loop over the records lo..hi of response.data, in order (split in
\* halves, which keeps the evaluation shallow for a full page)
RECURSIVE forEachLog(_, _, _, _, _)
forEachLog(data, lo, hi, st, raiseAt) ==
    IF lo > hi THEN st
    ELSE IF lo = hi THEN loopTurn(st, data[lo], lo, raiseAt)
    ELSE LET mid  == (lo + hi) \div 2
             left == forEachLog(data, lo, mid, st, raiseAt)
         IN  IF left.threw THEN left ELSE forEachLog(data, mid + 1, hi, left, raiseAt)

\* Keep seenIds bounded: Array.from(seenIds).slice(-5000) once size > 10000
keepBounded(seen) ==
    IF Len(seen) > SeenIdsMax
    THEN SubSeq(seen, Len(seen) - SeenIdsKeep + 1, Len(seen))
    ELSE seen

\* a try block that drops the response of a session stopped in the meantime
pollTryUnlessStopped(resp, raiseAt) ==
    LET st0 == [seq |-> seenIds, members |-> Range(seenIds), lastTimestamp |-> lastTimestamp,
                delivered |-> <<>>, threw |-> FALSE]
        st  == IF resp.hasData /\ running
               THEN forEachLog(resp.data, 1, Len(resp.data), st0, raiseAt)
               ELSE st0
    IN  [seenIds       |-> IF st.threw THEN st.seq ELSE keepBounded(st.seq),
         lastTimestamp |-> st.lastTimestamp,
         delivered     |-> st.delivered,
         threw         |-> st.threw]

\* the try block of poll once the response has arrived: the loop when
\* response.data is there, then the cut of seenIds unless onLog raised
pollTry(resp, raiseAt) ==
    LET st0 == [seq |-> seenIds, members |-> Range(seenIds), lastTimestamp |-> lastTimestamp,
                delivered |-> <<>>, threw |-> FALSE]
        st  == IF resp.hasData THEN forEachLog(resp.data, 1, Len(resp.data), st0, raiseAt)
               ELSE st0
    IN  [seenIds       |-> IF st.threw THEN st.seq ELSE keepBounded(st.seq),
         lastTimestamp |-> st.lastTimestamp,
         delivered     |-> st.delivered,
         threw         |-> st.threw]

\* catch (err): if (options.onError && err instanceof Error) options.onError(err)
onErrorCalled(errIsError) == hasOnError /\ errIsError

\* a rescheduling that does not look at running
rescheduleAlways(escaped) == timers + 1

\* a rescheduling that arms two timers
rescheduleTwice(escaped) == IF ~escaped /\ running THEN timers + 2 ELSE timers

\* if (running) setTimeout(poll, pollInterval), skipped when the catch block raised
reschedule(escaped) ==
    IF ~escaped /\ running THEN timers + 1 ELSE timers

\* the record of a finished poll cycle: kind is "resolved" (the query answered),
\* "rejected" (the query failed) or "returned" (the poll found running false)
Cycle(kind, resp, raiseAt, delivered, threw, errIsError, called, escaped, scheduled) ==
    [kind |-> kind, hadData |-> resp.hasData, data |-> resp.data, raiseAt |-> raiseAt,
     delivered |-> delivered, threw |-> threw, errIsError |-> errIsError,
     onErrorCalled |-> called, escaped |-> escaped, wasRunning |-> running,
     scheduled |-> scheduled]

NoResponse == [hasData |-> FALSE, data |-> <<>>]

NoCycle == Cycle("none", NoResponse, 0, <<>>, FALSE, FALSE, FALSE, FALSE, FALSE)

\* poll from the await on, the query answered with resp: the loop, the cut of
\* seenIds, the catch block when onLog raised, and the rescheduling
Resolve(resp, raiseAt, errIsError, onErrorRaises) ==
    /\ inflight > 0
    /\ \E r \in {pollTry(resp, raiseAt)} :
       \E called \in {r.threw /\ onErrorCalled(errIsError)} :
       \E escaped \in {called /\ onErrorRaises} :
       \E armed \in {reschedule(escaped)} :
          /\ r.threw \/ ~errIsError
          /\ called \/ ~onErrorRaises
          /\ seenIds' = r.seenIds
          /\ lastTimestamp' = r.lastTimestamp
          /\ inflight' = inflight - 1
          /\ timers' = armed
          /\ cycle' = Cycle("resolved", resp, raiseAt, r.delivered, r.threw, errIsError,
                            called, escaped, armed > timers)
          /\ onLogIds' = onLogIds \cup {r.delivered[i].id : i \in 1..Len(r.delivered)}
    /\ UNCHANGED <<running, hasOnError, call>>

\* poll from the await on, the query failed with err: the catch block and the
\* rescheduling
Reject(errIsError, onErrorRaises) ==
    /\ inflight > 0
    /\ \E called \in {onErrorCalled(errIsError)} :
       \E escaped \in {called /\ onErrorRaises} :
       \E armed \in {reschedule(escaped)} :
          /\ called \/ ~onErrorRaises
          /\ inflight' = inflight - 1
          /\ timers' = armed
          /\ cycle' = Cycle("rejected", NoResponse, 0, <<>>, TRUE, errIsError,
                            called, escaped, armed > timers)
    /\ UNCHANGED <<seenIds, lastTimestamp, running, hasOnError, onLogIds, call>>

\* if (!running) return
pollEnters == running

\* the timer fires and poll starts: if (!running) return; else the query is issued
TimerFire ==
    /\ timers > 0
    /\ timers' = timers - 1
    /\ IF pollEnters
       THEN inflight' = inflight + 1 /\ cycle' = NoCycle
       ELSE /\ UNCHANGED inflight
            /\ cycle' = Cycle("returned", NoResponse, 0, <<>>, FALSE, FALSE, FALSE, FALSE, FALSE)
    /\ UNCHANGED <<seenIds, lastTimestamp, running, hasOnError, polls, nextId, onLogIds, call>>

\* stop: running = false
stop ==
    /\ running' = FALSE
    /\ UNCHANGED <<seenIds, lastTimestamp, hasOnError, timers, inflight, polls, nextId, cycle, onLogIds, call>>

-----------------------------------------------------------------------------
(* parseTimeRange and parseRelativeTime, in their three copies: logs          *)
(* (part_001), spans (lib/output.ts) and metrics (part_000)                   *)

\* the largest N of the strings <N><unit> a call is given
MaxN == 12

\* a Date: valid with its time value, or Invalid Date (the time value NaN)
DateOf(ms) == [valid |-> TRUE, ms |-> ms]

InvalidDate == [valid |-> FALSE, ms |-> 0]

\* an optional string argument
Omitted == [has |-> FALSE, str |-> <<>>]

Given(str) == [has |-> TRUE, str |-> str]

\* the truthiness of an optional string: undefined and "" are falsy
Truthy(arg) == arg.has /\ arg.str # <<>>

\* parseInt(value, 10) of a string of digits
RECURSIVE parseIntFrom(_, _, _)
parseIntFrom(digits, i, acc) ==
    IF i > Len(digits) THEN acc
    ELSE parseIntFrom(digits, i + 1, 10 * acc + DigitValue(digits[i]))

parseInt(digits) == parseIntFrom(digits, 1, 0)

\* timeStr.match(/^(\d+)([mhd])$/): the digits and the unit, or no match
match(timeStr) ==
    IF /\ Len(timeStr) >= 2
       /\ timeStr[Len(timeStr)] \in {"m", "h", "d"}
       /\ \A i \in 1..(Len(timeStr) - 1) : IsDigit(timeStr[i])
    THEN [matched |-> TRUE, value |-> SubSeq(timeStr, 1, Len(timeStr) - 1),
          unit |-> timeStr[Len(timeStr)]]
    ELSE [matched |-> FALSE, value |-> <<>>, unit |-> ""]

\* the two digits of str at position i, as a number
Two(str, i) == 10 * DigitValue(str[i]) + DigitValue(str[i + 1])

\* str is a date of the ISO format, YYYY-MM-DD, of December 2023 or January 2024
IsISODate(str) ==
    /\ Len(str) >= 10
    /\ SubSeq(str, 1, 8) \in {<<"2", "0", "2", "4", "-", "0", "1", "-">>,
                              <<"2", "0", "2", "3", "-", "1", "2", "-">>}
    /\ IsDigit(str[9]) /\ IsDigit(str[10])
    /\ Two(str, 9) \in 1..31

\* str is a date-time of the ISO format, YYYY-MM-DDTHH:mm:ss.sssZ
IsISODateTime(str) ==
    /\ Len(str) = 24
    /\ IsISODate(str)
    /\ str[11] = "T" /\ str[14] = ":" /\ str[17] = ":" /\ str[20] = "." /\ str[24] = "Z"
    /\ \A i \in {12, 13, 15, 16, 18, 19, 21, 22, 23} : IsDigit(str[i])
    /\ Two(str, 12) < 24 /\ Two(str, 15) < 60 /\ Two(str, 18) < 60

IsISO(str) == IsISODateTime(str) \/ (Len(str) = 10 /\ IsISODate(str))

\* the time value of the date of an ISO string
ISODays(str) == IF str[4] = "4" THEN Two(str, 9) - 1 ELSE Two(str, 9) - 32

\* Date.parse(str), new Date(str): the ISO format is parsed as the language
\* defines; what any other string gives is left to the engine, and is the
\* outcome engine (a time value or NaN)
DateParse(str, engine) ==
    IF IsISODateTime(str)
    THEN DateOf(ISODays(str) * MsPerDay + Two(str, 12) * MsPerHour + Two(str, 15) * MsPerMinute
                + Two(str, 18) * MsPerSecond + 100 * DigitValue(str[21]) + Two(str, 22))
    ELSE IF Len(str) = 10 /\ IsISODate(str)
    THEN DateOf(ISODays(str) * MsPerDay)
    ELSE engine

\* a parseRelativeTime that returns the Invalid Date of a string it cannot parse
parseRelativeTimeNoFallback(timeStr, now, engine) ==
    LET m == match(timeStr) IN
    IF ~m.matched
    THEN DateParse(timeStr, engine)
    ELSE LET num == parseInt(m.value)
             ms  == now
         IN  CASE m.unit = "m" -> DateOf(ms - num * 60 * 1000)
               [] m.unit = "h" -> DateOf(ms - num * 60 * 60 * 1000)
               [] m.unit = "d" -> DateOf(ms - num * 24 * 60 * 60 * 1000)
               [] OTHER -> DateOf(now)

\* a parseRelativeTime that takes an hour for a minute
parseRelativeTimeHourSlip(timeStr, now, engine) ==
    LET m == match(timeStr) IN
    IF ~m.matched
    THEN LET parsed == DateParse(timeStr, engine)
         IN  IF parsed.valid THEN parsed ELSE DateOf(now)
    ELSE LET num == parseInt(m.value)
             ms  == now
         IN  CASE m.unit = "m" -> DateOf(ms - num * 60 * 1000)
               [] m.unit = "h" -> DateOf(ms - num * 60 * 1000)
               [] m.unit = "d" -> DateOf(ms - num * 24 * 60 * 60 * 1000)
               [] OTHER -> DateOf(now)

\* parseRelativeTime of the logs (part_001:610-634); now is now.getTime()
parseRelativeTime(timeStr, now, engine) ==
    LET m == match(timeStr) IN
    IF ~m.matched
    THEN LET parsed == DateParse(timeStr, engine)
         IN  IF parsed.valid THEN parsed ELSE DateOf(now)
    ELSE LET num == parseInt(m.value)
             ms  == now
         IN  CASE m.unit = "m" -> DateOf(ms - num * 60 * 1000)
               [] m.unit = "h" -> DateOf(ms - num * 60 * 60 * 1000)
               [] m.unit = "d" -> DateOf(ms - num * 24 * 60 * 60 * 1000)
               [] OTHER -> DateOf(now)

\* toISOString of a Date: raises RangeError on Invalid Date
DateToISO(date) ==
    IF date.valid THEN [raised |-> FALSE, str |-> toISOString(date.ms)]
    ELSE [raised |-> TRUE, str |-> <<>>]

\* a parseTimeRange with a default window of 5 minutes
parseTimeRangeShortDefault(from, to, now, engineFrom, engineTo) ==
    LET toDate   == IF Truthy(to) THEN parseRelativeTime(to.str, now, engineTo) ELSE DateOf(now)
        fromDate == IF Truthy(from) THEN parseRelativeTime(from.str, now, engineFrom)
                    ELSE DateOf(now - 5 * 60 * 1000)
    IN  [raised |-> DateToISO(fromDate).raised \/ DateToISO(toDate).raised,
         from |-> DateToISO(fromDate).str, to |-> DateToISO(toDate).str]

\* parseTimeRange of the logs (part_001:596-608); now is new Date()
parseTimeRange(from, to, now, engineFrom, engineTo) ==
    LET toDate   == IF Truthy(to) THEN parseRelativeTime(to.str, now, engineTo) ELSE DateOf(now)
        fromDate == IF Truthy(from) THEN parseRelativeTime(from.str, now, engineFrom)
                    ELSE DateOf(now - 15 * 60 * 1000)
    IN  [raised |-> DateToISO(fromDate).raised \/ DateToISO(toDate).raised,
         from |-> DateToISO(fromDate).str, to |-> DateToISO(toDate).str]

\* parseRelativeTime of the spans (lib/output.ts:441-465)
spansParseRelativeTime(timeStr, now, engine) ==
    LET m == match(timeStr) IN
    IF ~m.matched
    THEN LET parsed == DateParse(timeStr, engine)
         IN  IF parsed.valid THEN parsed ELSE DateOf(now)
    ELSE LET num == parseInt(m.value)
             ms  == now
         IN  CASE m.unit = "m" -> DateOf(ms - num * 60 * 1000)
               [] m.unit = "h" -> DateOf(ms - num * 60 * 60 * 1000)
               [] m.unit = "d" -> DateOf(ms - num * 24 * 60 * 60 * 1000)
               [] OTHER -> DateOf(now)

\* parseTimeRange of the spans (lib/output.ts:427-439)
spansParseTimeRange(from, to, now, engineFrom, engineTo) ==
    LET toDate   == IF Truthy(to) THEN spansParseRelativeTime(to.str, now, engineTo)
                    ELSE DateOf(now)
        fromDate == IF Truthy(from) THEN spansParseRelativeTime(from.str, now, engineFrom)
                    ELSE DateOf(now - 15 * 60 * 1000)
    IN  [raised |-> DateToISO(fromDate).raised \/ DateToISO(toDate).raised,
         from |-> DateToISO(fromDate).str, to |-> DateToISO(toDate).str]

\* parseRelativeTimeToUnix of the metrics (part_000:123-146), in seconds
parseRelativeTimeToUnix(timeStr, nowUnix, engine) ==
    LET m == match(timeStr) IN
    IF ~m.matched
    THEN LET parsed == DateParse(timeStr, engine)
         IN  IF parsed.valid THEN parsed.ms \div 1000 ELSE nowUnix
    ELSE LET num == parseInt(m.value)
         IN  CASE m.unit = "m" -> nowUnix - num * 60
               [] m.unit = "h" -> nowUnix - num * 60 * 60
               [] m.unit = "d" -> nowUnix - num * 24 * 60 * 60
               [] OTHER -> nowUnix

\* parseTimeRange of the metrics (part_000:112-121); clock is Date.now()
metricsParseTimeRange(from, to, clock, engineFrom, engineTo) ==
    LET now    == clock \div 1000
        toTs   == IF Truthy(to) THEN parseRelativeTimeToUnix(to.str, now, engineTo) ELSE now
        fromTs == IF Truthy(from) THEN parseRelativeTimeToUnix(from.str, now, engineFrom)
                  ELSE now - 15 * 60
    IN  [raised |-> FALSE, from |-> fromTs, to |-> toTs]

-----------------------------------------------------------------------------
(* The callers of parseTimeRange: one call, of any pair of from and to, at a  *)
(* clock reading                                                              *)

\* the decimal numeral of n < 100
Decimal(n) == IF n < 10 THEN <<Digit(n)>> ELSE <<Digit(n \div 10), Digit(n % 10)>>

Units == {"s", "m", "h", "d"}

\* <N><unit>, and one numeral with a leading zero
RelativeStrs ==
    {Decimal(n) \o <<u>> : n \in 0..MaxN, u \in Units} \cup {<<"0", "7", u>> : u \in Units}

\* absolute date-times: an hour before the start, a day after it, a date
AbsoluteStrs ==
    {toISOString(StartInstant - MsPerHour), toISOString(StartInstant + MsPerDay),
     <<"2", "0", "2", "4", "-", "0", "1", "-", "1", "0">>}

\* strings that are neither: no unit, no digits, another unit, a sign, a space
OtherStrs ==
    {<<"1", "5">>, <<"m">>, <<"x">>, <<"1", "x">>, <<"-", "1", "h">>, <<"1", "h", " ">>}

TimeArgs ==
    {Omitted, Given(<<>>)} \cup {Given(str) : str \in RelativeStrs \cup AbsoluteStrs \cup OtherStrs}

\* Date.now() at the call: the start, and 999 ms after it
Clocks == {StartInstant, StartInstant + 999}

\* what the engine makes of a string that is not of the ISO format: NaN, or
\* the time value its heuristics read from it
Engines == {InvalidDate, DateOf(StartInstant - 7 * MsPerDay)}

\* the engine is asked only about a string that is there and matches no pattern
EnginesFor(arg) ==
    IF Truthy(arg) /\ ~match(arg.str).matched /\ ~IsISO(arg.str)
    THEN Engines ELSE {InvalidDate}

\* the call to come: its arguments, the clock and what the engine will parse
Pending(from, to, clock, engineFrom, engineTo) ==
    [fn |-> "none", from |-> from, to |-> to, clock |-> clock,
     engineFrom |-> engineFrom, engineTo |-> engineTo,
     result |-> [raised |-> FALSE, from |-> <<>>, to |-> <<>>]]

NoCall == Pending(Omitted, Omitted, StartInstant, InvalidDate, InvalidDate)

\* a logs query resolves its time range
LogsParseTimeRange ==
    /\ call.fn = "none"
    /\ call' = [call EXCEPT !.fn = "logs",
                            !.result = parseTimeRange(call.from, call.to, call.clock,
                                                      call.engineFrom, call.engineTo)]
    /\ UNCHANGED tailVars

\* a spans query resolves its time range
SpansParseTimeRange ==
    /\ call.fn = "none"
    /\ call' = [call EXCEPT !.fn = "spans",
                            !.result = spansParseTimeRange(call.from, call.to, call.clock,
                                                           call.engineFrom, call.engineTo)]
    /\ UNCHANGED tailVars

\* a metrics query resolves its time range
MetricsParseTimeRange ==
    /\ call.fn = "none"
    /\ call' = [call EXCEPT !.fn = "metrics",
                            !.result = metricsParseTimeRange(call.from, call.to, call.clock,
                                                             call.engineFrom, call.engineTo)]
    /\ UNCHANGED tailVars

InitTime ==
    /\ seenIds = <<>>
    /\ lastTimestamp = toISOString(StartInstant)
    /\ running = TRUE
    /\ hasOnError = FALSE
    /\ timers = 0
    /\ inflight = 1
    /\ polls = 0
    /\ nextId = 1
    /\ cycle = NoCycle
    /\ onLogIds = {}
    /\ \E from, to \in TimeArgs, clock \in Clocks :
       \E engineFrom \in EnginesFor(from), engineTo \in EnginesFor(to) :
          call = Pending(from, to, clock, engineFrom, engineTo)

NextTime == LogsParseTimeRange \/ SpansParseTimeRange \/ MetricsParseTimeRange

SpecTime == InitTime /\ [][NextTime]_vars

-----------------------------------------------------------------------------
(* The small backend: any response of up to MaxResp records *)

\* a record of December 2023, one 1 ms and one an hour after the start
OlderInstant == StartInstant - 15 * MsPerDay
NewerInstant == StartInstant + 1
NewestInstant == StartInstant + MsPerHour

\* the records the small backend answers with: two of one id and different
\* timestamps, a record without timestamp, an older record without id
SmallRaw ==
    {RawLog(TRUE, 1, TRUE, NewerInstant), RawLog(TRUE, 1, TRUE, NewestInstant),
     RawLog(TRUE, 2, FALSE, 0), RawLog(FALSE, 0, TRUE, OlderInstant)}

SeqsUpTo(S, n) == UNION {[1..k -> S] : k \in 0..n}

SmallResponses ==
    {NoResponse} \cup {[hasData |-> TRUE, data |-> d] : d \in SeqsUpTo(SmallRaw, MaxResp)}

\* the state tailLogs returns in: the first poll has run up to its await
InitTail ==
    /\ seenIds = <<>>
    /\ lastTimestamp = toISOString(StartInstant)
    /\ running = TRUE
    /\ hasOnError \in BOOLEAN
    /\ timers = 0
    /\ inflight = 1
    /\ polls = 0
    /\ nextId = 1
    /\ cycle = NoCycle
    /\ onLogIds = {}
    /\ call = NoCall

PollResolve ==
    /\ \E resp \in SmallResponses : \E raiseAt \in 0..Len(resp.data) :
       \E errIsError, onErrorRaises \in BOOLEAN :
          Resolve(resp, raiseAt, errIsError, onErrorRaises)
    /\ UNCHANGED <<polls, nextId>>

PollReject ==
    /\ \E errIsError, onErrorRaises \in BOOLEAN : Reject(errIsError, onErrorRaises)
    /\ UNCHANGED <<polls, nextId>>

NextTail == PollResolve \/ PollReject \/ TimerFire \/ stop

SpecTail == InitTail /\ [][NextTail]_vars

-----------------------------------------------------------------------------
(* The bulk backend: full pages of records never returned before, enough of   *)
(* them to fill seenIds.  Page k holds the ids nextId .. nextId+PageLimit-1,  *)
(* all stamped k ms after the start.  onLog raises only in a cycle that adds  *)
(* to a full seenIds.                                                         *)

Page(first, ts) ==
    [hasData |-> TRUE, data |-> [k \in 1..PageLimit |-> RawLog(TRUE, first + k - 1, TRUE, ts)]]

\* the query answered with a page of new records
PollResolvePage ==
    /\ polls < MaxBulkPolls
    /\ \E raiseAt \in {0, 1, PageLimit} : \E errIsError, onErrorRaises \in BOOLEAN :
          /\ raiseAt = 0 \/ Len(seenIds) + PageLimit > SeenIdsMax
          /\ Resolve(Page(nextId, StartInstant + polls + 1), raiseAt, errIsError, onErrorRaises)
    /\ polls' = polls + 1
    /\ nextId' = nextId + PageLimit

\* the query answered with the page of the watermark once more
PollResolveAgain ==
    /\ polls > 0
    /\ Resolve(Page(nextId - PageLimit, StartInstant + polls), 0, FALSE, FALSE)
    /\ UNCHANGED <<polls, nextId>>

NextBulk == PollResolvePage \/ PollResolveAgain \/ PollReject \/ TimerFire \/ stop

SpecBulk == InitTail /\ [][NextBulk]_vars

-----------------------------------------------------------------------------
(* Claims about tailLogs *)

FinishedCycle == cycle.kind \in {"resolved", "rejected"}

Ids(logs) == [i \in 1..Len(logs) |-> logs[i].id]

LastOf(s, n) == IF Len(s) > n THEN SubSeq(s, Len(s) - n + 1, Len(s)) ELSE s

\* C1: after every finished poll cycle, answered or failed, seenIds holds at
\* most 10,000 ids, and a cycle that would leave more than 10,000 leaves
\* exactly the 5,000 ids added last, in insertion order.
C1_SeenIdsBounded ==
    [][(cycle'.kind \in {"resolved", "rejected"} /\ inflight' < inflight) =>
          LET all == seenIds \o Ids(cycle'.delivered)
          IN  /\ Len(seenIds') <= SeenIdsMax
              /\ Len(all) > SeenIdsMax => seenIds' = LastOf(all, SeenIdsKeep)]_vars

\* The part of C1 the code keeps: a cycle in which onLog does not raise leaves
\* at most 10,000 ids, cut to the 5,000 added last when there would be more.
C1_BoundedUnlessRaised ==
    [][(cycle'.kind \in {"resolved", "rejected"} /\ inflight' < inflight /\ ~cycle'.threw) =>
          LET all == seenIds \o Ids(cycle'.delivered)
          IN  /\ Len(all) > SeenIdsMax => seenIds' = LastOf(all, SeenIdsKeep)
              /\ Len(all) <= SeenIdsMax => seenIds' = all]_vars

\* a cycle cut seenIds to 5,000 ids
C1_CutReached == FinishedCycle /\ Len(seenIds) = SeenIdsKeep /\ Len(cycle.delivered) = PageLimit

\* C2: the watermark never decreases: over any step lastTimestamp is greater
\* than or equal to what it was, in the order the code compares it by.
C2_WatermarkMonotone == [][StrGE(lastTimestamp', lastTimestamp)]_vars

\* a poll delivered a record older than the watermark, or without timestamp,
\* after the watermark had advanced
C2_Witness ==
    /\ cycle.kind = "resolved"
    /\ lastTimestamp = toISOString(NewestInstant)
    /\ \E i \in 1..Len(cycle.delivered) : cycle.delivered[i].timestamp = <<>>
    /\ \E i \in 1..Len(cycle.delivered) :
          cycle.delivered[i].timestamp = toISOString(OlderInstant)

\* C3: every failure of a poll's query is handed to onError when onError is
\* supplied, and the next poll is scheduled while the session is running.
C3_FailureDeliveredAndLoopGoesOn ==
    cycle.kind = "rejected" =>
        /\ hasOnError => cycle.onErrorCalled
        /\ cycle.wasRunning => cycle.scheduled

\* The part of C3 the code keeps: a failure that is an Error is handed to
\* onError, and the next poll is scheduled unless onError itself raises.
C3_UnlessOnErrorRaises ==
    cycle.kind = "rejected" =>
        /\ (hasOnError /\ cycle.errIsError) => cycle.onErrorCalled
        /\ (cycle.wasRunning /\ ~cycle.escaped) => cycle.scheduled

\* C4: once stop() was called the session never runs again, issues no query
\* and arms no poll: an armed poll fires and returns before it queries.
C4_StoppedIsFinal ==
    [][~running => (~running' /\ inflight' <= inflight /\ timers' <= timers)]_vars

\* after stop() the armed poll fired and returned without a query
C4_Witness ==
    ~running /\ cycle.kind = "returned" /\ timers = 0 /\ inflight = 0 /\ seenIds # <<>>

\* the positions of data whose record is not in seen and not earlier in data
FreshIdx(data, seen) ==
    {i \in 1..Len(data) :
        /\ normalizeLog(data[i]).id \notin Range(seen)
        /\ \A j \in 1..(i - 1) : normalizeLog(data[j]).id # normalizeLog(data[i]).id}

\* the records of data at the positions idx, in order
RECURSIVE PickFrom(_, _, _)
PickFrom(data, idx, i) ==
    IF i > Len(data) THEN <<>>
    ELSE (IF i \in idx THEN <<normalizeLog(data[i])>> ELSE <<>>) \o PickFrom(data, idx, i + 1)

Pick(data, idx) == PickFrom(data, idx, 1)

\* the greatest of the string last and the timestamps of the records at idx
MaxTimestamp(data, idx, last) ==
    CHOOSE m \in {last} \cup {normalizeLog(data[i]).timestamp : i \in idx} :
        \A i \in idx : StrGE(m, normalizeLog(data[i]).timestamp) /\ StrGE(m, last)

\* a step that finishes an answered poll of a session stopped while it was in flight
StoppedInFlight == ~running /\ inflight' < inflight /\ cycle'.kind = "resolved"

\* C5 as claimed: a poll answered after stop() hands every record of the
\* response that is not in seenIds to onLog, adds them to seenIds, advances the
\* watermark over them, and arms no poll.
C5_AllDelivered ==
    [][StoppedInFlight =>
          LET fresh == FreshIdx(cycle'.data, seenIds)
          IN  /\ cycle'.delivered = Pick(cycle'.data, fresh)
              /\ seenIds' = seenIds \o Ids(Pick(cycle'.data, fresh))
              /\ lastTimestamp' = MaxTimestamp(cycle'.data, fresh, lastTimestamp)
              /\ timers' = timers]_vars

\* C5 as amended: the records not in seenIds are handed to onLog in order up
\* to and including the first one onLog raises for, all of them when it does
\* not raise; each record handed over is added to seenIds; the watermark
\* advances over those onLog returned from; no poll is armed.
C5_DeliveredUpToRaise ==
    [][StoppedInFlight =>
          LET fresh  == FreshIdx(cycle'.data, seenIds)
              raised == cycle'.raiseAt \in fresh
              handed == IF raised THEN {i \in fresh : i <= cycle'.raiseAt} ELSE fresh
              done   == IF raised THEN {i \in fresh : i < cycle'.raiseAt} ELSE fresh
          IN  /\ cycle'.delivered = Pick(cycle'.data, handed)
              /\ seenIds' = seenIds \o Ids(Pick(cycle'.data, handed))
              /\ lastTimestamp' = MaxTimestamp(cycle'.data, done, lastTimestamp)
              /\ timers' = timers]_vars

\* a poll answered after stop() handed records to onLog, skipped a record it
\* had seen, advanced the watermark and armed no poll
C5_Witness ==
    /\ cycle.kind = "resolved" /\ ~cycle.wasRunning /\ ~running
    /\ Len(cycle.delivered) >= 1
    /\ Len(cycle.delivered) < Len(cycle.data)
    /\ Len(seenIds) > Len(cycle.delivered)
    /\ lastTimestamp = cycle.delivered[Len(cycle.delivered)].timestamp
    /\ timers = 0 /\ inflight = 0

\* C6: at most one poll of a session is armed or in flight at any time.
C6_OnePollAtATime == timers + inflight <= 1

\* a later poll is in flight, after a cycle that delivered records
C6_Witness == inflight = 1 /\ timers = 0 /\ seenIds # <<>> /\ running

-----------------------------------------------------------------------------
(* Claims about parseTimeRange *)

UnitSeconds(u) == CASE u = "s" -> 1 [] u = "m" -> 60 [] u = "h" -> 3600 [] u = "d" -> 86400

\* the instant now - N * unit in the form the copy fn returns it in
Ago(fn, clock, n, u) ==
    IF fn = "metrics" THEN (clock \div 1000) - n * UnitSeconds(u)
    ELSE toISOString(clock - n * UnitSeconds(u) * 1000)

\* the strings that spell <N><unit>
Spellings(n, u) ==
    {Decimal(n) \o <<u>>} \cup (IF n = 7 THEN {<<"0", "7", u>>} ELSE {})

\* every <N><unit> with a unit of units, given as from or as to, resolves to
\* now - N * unit
RelativeResolves(units) ==
    call.fn # "none" =>
        \A n \in 0..MaxN, u \in units :
            /\ (call.from.has /\ call.from.str \in Spellings(n, u)) =>
                  call.result.from = Ago(call.fn, call.clock, n, u)
            /\ (call.to.has /\ call.to.str \in Spellings(n, u)) =>
                  call.result.to = Ago(call.fn, call.clock, n, u)

Before(fn, a, b) == IF fn = "metrics" THEN a <= b ELSE StrGE(b, a)

\* C8: whatever from and to are, the time range parseTimeRange returns has
\* from <= to.
C8_FromBeforeTo ==
    call.fn # "none" => Before(call.fn, call.result.from, call.result.to)

\* C9: with from and to both omitted, to is now and from is now minus exactly
\* 15 minutes, of one reading of the clock.
C9_DefaultWindow ==
    (call.fn # "none" /\ ~Truthy(call.from) /\ ~Truthy(call.to)) =>
        /\ call.result.to = Ago(call.fn, call.clock, 0, "m")
        /\ call.result.from = Ago(call.fn, call.clock, 15, "m")

\* parseTimeRange was called without from and to, off a full second
C9_Witness ==
    /\ call.fn = "metrics" /\ call.from = Omitted /\ call.to = Omitted
    /\ call.clock % 1000 # 0
    /\ call.result.to - call.result.from = 900

\* arg is there, matches no relative pattern and the engine parses no date from it
Unparseable(arg, engine) ==
    /\ Truthy(arg)
    /\ ~match(arg.str).matched
    /\ ~DateParse(arg.str, engine).valid

\* C10: a string that neither matches the relative pattern nor parses as a
\* date-time resolves to now, and nothing is raised.
C10_FallsBackToNow ==
    call.fn # "none" =>
        /\ Unparseable(call.from, call.engineFrom) =>
              call.result.from = Ago(call.fn, call.clock, 0, "m") /\ ~call.result.raised
        /\ Unparseable(call.to, call.engineTo) =>
              call.result.to = Ago(call.fn, call.clock, 0, "m") /\ ~call.result.raised

\* from is a string of another unit and to has no digits: both resolved to now
C10_Witness ==
    /\ call.fn = "logs"
    /\ call.from = Given(<<"1", "x">>) /\ call.engineFrom = InvalidDate
    /\ call.to = Given(<<"m">>) /\ call.engineTo = InvalidDate
    /\ call.result.from = toISOString(call.clock)
    /\ call.result.to = toISOString(call.clock)

-----------------------------------------------------------------------------
(* buildTraceTree (lib/output.ts:535-582).  A span id is a number: "" is 0.  *)
(* A node is named by the span id spanMap keeps it under.                    *)

\* the longest span list
MaxSpans == 4

\* the span ids of the lists: "" and three others
SpanIds == 0..3

\* a NormalizedSpan, the fields buildTraceTree reads: parentId is optional
Span(spanId, hasParent, parentId, timestamp) ==
    [spanId |-> spanId, hasParent |-> hasParent, parentId |-> parentId, timestamp |-> timestamp]

\* span.parentId is truthy: it is there and is not ""
HasParentId(span) == span.hasParent /\ span.parentId # 0

\* the first loop: spanMap.set(span.spanId, node), a later span of the same id
\* replaces the node; the map is held as id |-> position of the span of the node
spanMapOf(spans) ==
    [id \in {spans[i].spanId : i \in 1..Len(spans)} |->
        CHOOSE i \in 1..Len(spans) :
            spans[i].spanId = id /\ \A j \in (i + 1)..Len(spans) : spans[j].spanId # id]

\* the second loop up to the span at position n: the node of each span is
\* pushed to the children of its parent's node, or to roots
RECURSIVE linkSpans(_, _, _)
linkSpans(spans, spanMap, n) ==
    IF n = 0
    THEN [roots |-> <<>>, children |-> [id \in DOMAIN spanMap |-> <<>>]]
    ELSE LET before == linkSpans(spans, spanMap, n - 1)
             span   == spans[n]
         IN  IF HasParentId(span) /\ span.parentId \in DOMAIN spanMap
             THEN [before EXCEPT !.children[span.parentId] = Append(@, span.spanId)]
             ELSE [before EXCEPT !.roots = Append(@, span.spanId)]

\* setDepth(node, depth): the assignments node.depth = depth it makes, in
\* order.  A node that lies on a cycle reached from node makes it recurse
\* without end, which the engine ends with a RangeError: that is overflow,
\* found when depth passes the number of nodes.
RECURSIVE setDepth(_, _, _)
RECURSIVE setDepthAll(_, _, _, _)
setDepth(children, node, depth) ==
    IF depth > Cardinality(DOMAIN children)
    THEN [overflow |-> TRUE, writes |-> <<>>]
    ELSE LET below == setDepthAll(children, children[node], 1, depth + 1)
         IN  [overflow |-> below.overflow, writes |-> <<<<node, depth>>>> \o below.writes]

\* setDepth of the nodes of list from position k on, each at depth
setDepthAll(children, list, k, depth) ==
    IF k > Len(list) THEN [overflow |-> FALSE, writes |-> <<>>]
    ELSE LET first == setDepth(children, list[k], depth)
         IN  IF first.overflow THEN first
             ELSE LET rest == setDepthAll(children, list, k + 1, depth)
                  IN  [overflow |-> rest.overflow, writes |-> first.writes \o rest.writes]

\* node.depth after the assignments writes: the last one of a node stays
RECURSIVE depthAfter(_, _, _)
depthAfter(depth, writes, k) ==
    IF k > Len(writes) THEN depth
    ELSE depthAfter([depth EXCEPT ![writes[k][1]] = writes[k][2]], writes, k + 1)

\* the nodes reached from the nodes of from over children
RECURSIVE reachable(_, _)
reachable(children, from) ==
    LET more == from \cup UNION {Range(children[n]) : n \in from}
    IN  IF more = from THEN from ELSE reachable(children, more)

\* new Date(node.span.timestamp).getTime(): NaN for ""
timeOf(spans, spanMap, node) == DateParse(spans[spanMap[node]].timestamp, InvalidDate)

\* (a, b) => getTime(a) - getTime(b) is negative; a NaN compares as 0
compareBefore(ta, tb) == ta.valid /\ tb.valid /\ ta.ms < tb.ms

\* the comparator orders list consistently: no NaN beside two different times
consistentOn(spans, spanMap, list) ==
    \/ \A k \in 1..Len(list) : timeOf(spans, spanMap, list[k]).valid
    \/ \A j, k \in 1..Len(list) :
          ~compareBefore(timeOf(spans, spanMap, list[j]), timeOf(spans, spanMap, list[k]))

\* list with node put in after the last element that is not after it
RECURSIVE insertSorted(_, _, _, _)
insertSorted(spans, spanMap, list, node) ==
    IF list = <<>> THEN <<node>>
    ELSE IF compareBefore(timeOf(spans, spanMap, node), timeOf(spans, spanMap, list[Len(list)]))
    THEN Append(insertSorted(spans, spanMap, SubSeq(list, 1, Len(list) - 1), node), list[Len(list)])
    ELSE Append(list, node)

\* Array.prototype.sort with a consistent comparator: a stable sort
RECURSIVE stableSort(_, _, _, _)
stableSort(spans, spanMap, list, n) ==
    IF n = 0 THEN <<>>
    ELSE insertSorted(spans, spanMap, stableSort(spans, spanMap, list, n - 1), list[n])

\* the orders of list
orders(list) ==
    {[k \in 1..Len(list) |-> list[p[k]]] : p \in Permutations(1..Len(list))}

\* sortChildren from every root: node.children.sort(...) of the nodes reached
\* is the stable sort, or, the comparator being inconsistent, an order the
\* engine chooses; the children of the other nodes stay as they were pushed
sortChildrenOutcomes(spans, spanMap, roots, children) ==
    LET reached == reachable(children, Range(roots))
        sorted  == [n \in DOMAIN children |->
                       IF n \in reached
                       THEN stableSort(spans, spanMap, children[n], Len(children[n]))
                       ELSE children[n]]
        free    == {n \in reached : ~consistentOn(spans, spanMap, children[n])}
    IN  IF free = {} THEN {sorted}
        ELSE {[n \in DOMAIN children |-> IF n \in free THEN chosen[n] ELSE sorted[n]] :
                chosen \in {c \in [free -> UNION {orders(children[n]) : n \in free}] :
                               \A n \in free : c[n] \in orders(children[n])}}

\* the forests buildTraceTree(spans) may return, or raised with the RangeError
buildTraceTree(spans) ==
    LET spanMap == spanMapOf(spans)
        linked  == linkSpans(spans, spanMap, Len(spans))
        depths  == setDepthAll(linked.children, linked.roots, 1, 0)
        depth   == depthAfter([id \in DOMAIN spanMap |-> 0], depths.writes, 1)
    IN  IF depths.overflow
        THEN {[raised |-> TRUE, roots |-> <<>>, children |-> << >>, depth |-> << >>]}
        ELSE {[raised |-> FALSE, roots |-> linked.roots, children |-> sorted, depth |-> depth] :
                sorted \in sortChildrenOutcomes(spans, spanMap, linked.roots, linked.children)}

-----------------------------------------------------------------------------
(* The callers of buildTraceTree: one call, of any list of up to MaxSpans    *)
(* spans.  The code does not tell one non-empty id from another, so the      *)
(* lists name their ids 1, 2, 3 in the order they first use them.            *)

\* parentId: undefined, or a span id ("" included), of the list or not
ParentIds == {[has |-> FALSE, id |-> 0]} \cup {[has |-> TRUE, id |-> id] : id \in SpanIds}

\* the span ids of a list of n spans
SpanIdLists(n) ==
    {ids \in [1..n -> SpanIds] :
        \A i \in 1..n : \A id \in 1..(ids[i] - 1) : \E j \in 1..(i - 1) : ids[j] = id}

\* the timestamps of a list by position: ascending, descending, all equal,
\* and with the second one missing
TimestampLists ==
    {[i \in 1..MaxSpans |-> toISOString(StartInstant + i)],
     [i \in 1..MaxSpans |-> toISOString(StartInstant + MaxSpans + 1 - i)],
     [i \in 1..MaxSpans |-> toISOString(StartInstant)],
     [i \in 1..MaxSpans |-> IF i = 2 THEN <<>> ELSE toISOString(StartInstant + MaxSpans + 1 - i)]}

\* the list of the spans of the ids, parents and timestamps by position
SpanList(ids, parents, times) ==
    [i \in DOMAIN ids |-> Span(ids[i], parents[i].has, parents[i].id, times[i])]

\* the call to come, of the spans
PendingTree(spans) ==
    [fn |-> "none", spans |-> spans,
     result |-> [raised |-> FALSE, roots |-> <<>>, children |-> << >>, depth |-> << >>]]

\* const tree = buildTraceTree(spans)
BuildTraceTree ==
    /\ call.fn = "none"
    /\ \E result \in buildTraceTree(call.spans) :
          call' = [call EXCEPT !.fn = "buildTraceTree", !.result = result]
    /\ UNCHANGED tailVars

InitTree ==
    /\ seenIds = <<>>
    /\ lastTimestamp = toISOString(StartInstant)
    /\ running = TRUE
    /\ hasOnError = FALSE
    /\ timers = 0
    /\ inflight = 1
    /\ polls = 0
    /\ nextId = 1
    /\ cycle = NoCycle
    /\ onLogIds = {}
    /\ \E n \in 0..MaxSpans :
       \E ids \in SpanIdLists(n), parents \in [1..n -> ParentIds], times \in TimestampLists :
          call = PendingTree(SpanList(ids, parents, times))

NextTree == BuildTraceTree

SpecTree == InitTree /\ [][NextTree]_vars

-----------------------------------------------------------------------------
(* Claims about buildTraceTree *)

\* buildTraceTree returned a forest
TreeReturned == call.fn = "buildTraceTree" /\ ~call.result.raised

\* the nodes of the forest returned: those reached from its roots
ForestNodes == reachable(call.result.children, Range(call.result.roots))

\* the span ids of the list are pairwise distinct
DistinctSpanIds ==
    \A i, j \in 1..Len(call.spans) : call.spans[i].spanId = call.spans[j].spanId => i = j

\* in the forest returned every root has depth 0 and every child of a node
\* has the depth of the node plus one
DepthsFit ==
    /\ \A k \in 1..Len(call.result.roots) : call.result.depth[call.result.roots[k]] = 0
    /\ \A n \in ForestNodes : \A k \in 1..Len(call.result.children[n]) :
          call.result.depth[call.result.children[n][k]] = call.result.depth[n] + 1

\* C11: for any span list, in the forest buildTraceTree returns (the nodes
\* reached from the returned roots) every root has depth 0 and every node
\* that is the child of a node has the depth of that node plus one.
C11_DepthsOfForest == TreeReturned => DepthsFit

\* The part of C11 the code keeps: the depths fit when the span ids of the
\* list are pairwise distinct.
C11_DepthsOfDistinctIds == (TreeReturned /\ DistinctSpanIds) => DepthsFit

\* a forest of two levels came back for spans of distinct ids
C11_DistinctReached ==
    /\ TreeReturned /\ DistinctSpanIds /\ Len(call.spans) = MaxSpans
    /\ \E n \in ForestNodes : call.result.depth[n] = 2

\* the span ids of the list
ListedIds == {call.spans[i].spanId : i \in 1..Len(call.spans)}

\* the span at position i is returned as a root when it has no parentId or
\* its parentId is the id of no span of the list (hasParentId tells whether
\* it has one), and is a child of its parent's node and no root otherwise
PlacedByParent(i, hasParentId) ==
    LET span == call.spans[i] IN
    IF ~hasParentId \/ span.parentId \notin ListedIds
    THEN span.spanId \in Range(call.result.roots)
    ELSE /\ span.spanId \in Range(call.result.children[span.parentId])
         /\ span.spanId \notin Range(call.result.roots)

\* C12: a span without parentId, or whose parentId is the spanId of no span
\* of the list, is returned as a root; a span whose parentId is the spanId of
\* a span of the list is a child of that span's node and is not a root.
C12_RootsAndChildren ==
    TreeReturned => \A i \in 1..Len(call.spans) : PlacedByParent(i, call.spans[i].hasParent)

\* The part of C12 the code keeps: it holds for lists of pairwise distinct
\* span ids when the parentId "" counts as no parentId.
C12_DistinctIdsPlaced ==
    (TreeReturned /\ DistinctSpanIds) =>
        \A i \in 1..Len(call.spans) : PlacedByParent(i, HasParentId(call.spans[i]))

\* C13: for any span list, with cycles of parents, a span that is its own
\* parent, repeated and empty ids, buildTraceTree returns a forest and does
\* not raise.
C13_ReturnsWithoutRaising == call.fn = "buildTraceTree" => ~call.result.raised

\* The part of C13 the code keeps: no list of pairwise distinct span ids
\* makes it raise.
C13_DistinctIdsReturn == (call.fn = "buildTraceTree" /\ DistinctSpanIds) => ~call.result.raised

\* a list of distinct ids with a cycle of two parents and a span that is its
\* own parent came back as an empty forest
C13_CycleReached ==
    /\ TreeReturned /\ DistinctSpanIds /\ Len(call.spans) = 3
    /\ call.result.roots = <<>>
    /\ \E i \in 1..3 : call.spans[i].hasParent /\ call.spans[i].parentId = call.spans[i].spanId

-----------------------------------------------------------------------------
(* extractPattern (part_001:688-708): nine replacements, each of all the     *)
(* matches of one regular expression from left to right, and trim            *)

LowerChars ==
    {"a", "b", "c", "d", "e", "f", "g", "h", "i", "j", "k", "l", "m",
     "n", "o", "p", "q", "r", "s", "t", "u", "v", "w", "x", "y", "z"}

UpperChars ==
    {"A", "B", "C", "D", "E", "F", "G", "H", "I", "J", "K", "L", "M",
     "N", "O", "P", "Q", "R", "S", "T", "U", "V", "W", "X", "Y", "Z"}

\* \d
DigitClass == {"0", "1", "2", "3", "4", "5", "6", "7", "8", "9"}

\* [0-9a-f] with the flag i
HexClass == DigitClass \cup {"a", "b", "c", "d", "e", "f", "A", "B", "C", "D", "E", "F"}

\* \w
WordClass == DigitClass \cup LowerChars \cup UpperChars \cup {"_"}

\* [\w.-]
EmailClass == WordClass \cup {".", "-"}

\* \s, of the characters of the messages
SpaceClass == {" ", "\t", "\n"}

\* the other characters of the messages
OtherChars == {".", "-", "@", ":", "/", "<", ">", "\"", "'", "="}

\* [^\s], of the characters of the messages
NonSpaceClass == WordClass \cup OtherChars

\* the character at position k of str is a word character
wordAt(str, k) == k >= 1 /\ k <= Len(str) /\ str[k] \in WordClass

\* \b before position k
boundaryAt(str, k) == wordAt(str, k - 1) # wordAt(str, k)

\* the first position from i on whose character is not of class, Len(str) + 1 if none
runEnd(str, i, class) ==
    CHOOSE k \in i..(Len(str) + 1) :
        /\ k = Len(str) + 1 \/ str[k] \notin class
        /\ \A j \in i..(k - 1) : str[j] \in class

\* the first position from i on whose character is c, 0 if none
indexOf(str, c, i) ==
    IF \E k \in i..Len(str) : str[k] = c
    THEN CHOOSE k \in i..Len(str) : str[k] = c /\ \A j \in i..(k - 1) : str[j] # c
    ELSE 0

\* str has the characters of lit from position i on
litAt(str, lit, i) ==
    /\ i + Len(lit) - 1 <= Len(str)
    /\ \A k \in 1..Len(lit) : str[i + k - 1] = lit[k]

\* /[0-9a-f]{8}-[0-9a-f]{4}-[0-9a-f]{4}-[0-9a-f]{4}-[0-9a-f]{12}/gi at i
uuidLen(str, i) ==
    IF /\ i + 35 <= Len(str)
       /\ \A k \in 0..35 : IF k \in {8, 13, 18, 23} THEN str[i + k] = "-"
                           ELSE str[i + k] \in HexClass
    THEN 36 ELSE 0

\* /\b[0-9a-f]{32,}\b/gi at i
hexLen(str, i) ==
    LET e == runEnd(str, i, HexClass) IN
    IF boundaryAt(str, i) /\ e - i >= 32 /\ boundaryAt(str, e) THEN e - i ELSE 0

\* /\b\d+\b/g at i
numberLen(str, i) ==
    LET e == runEnd(str, i, DigitClass) IN
    IF boundaryAt(str, i) /\ e > i /\ boundaryAt(str, e) THEN e - i ELSE 0

\* \d{1,3} at i followed by a dot: the position after the dot, 0 if none
octetDot(str, i) ==
    LET e == IF i = 0 THEN 0 ELSE runEnd(str, i, DigitClass) IN
    IF i # 0 /\ e - i \in 1..3 /\ e <= Len(str) /\ str[e] = "." THEN e + 1 ELSE 0

\* /\b\d{1,3}\.\d{1,3}\.\d{1,3}\.\d{1,3}\b/g at i
ipLen(str, i) ==
    LET p4 == octetDot(str, octetDot(str, octetDot(str, i)))
        e  == IF p4 = 0 THEN 0 ELSE runEnd(str, p4, DigitClass)
    IN  IF boundaryAt(str, i) /\ p4 # 0 /\ e - p4 \in 1..3 /\ boundaryAt(str, e)
        THEN e - i ELSE 0

\* /\b[\w.-]+@[\w.-]+\.\w+\b/g at i: the first run reaches the @; the second
\* gives back characters down to its last dot that word characters follow
emailLen(str, i) ==
    LET at   == runEnd(str, i, EmailClass)
        e    == IF at <= Len(str) THEN runEnd(str, at + 1, EmailClass) ELSE 0
        dots == {d \in (at + 2)..(e - 2) : str[d] = "." /\ str[d + 1] \in WordClass}
    IN  IF /\ boundaryAt(str, i) /\ at > i /\ at <= Len(str) /\ str[at] = "@"
           /\ dots # {}
        THEN runEnd(str, (CHOOSE d \in dots : \A o \in dots : o <= d) + 1, WordClass) - i
        ELSE 0

\* /https?:\/\/[^\s]+/g at i
urlLen(str, i) ==
    LET http  == <<"h", "t", "t", "p">>
        slash == <<":", "/", "/">>
        rest  == IF litAt(str, http, i)
                 THEN IF litAt(str, <<"s">> \o slash, i + 4) THEN i + 8
                      ELSE IF litAt(str, slash, i + 4) THEN i + 7 ELSE 0
                 ELSE 0
        e     == IF rest = 0 \/ rest > Len(str) THEN 0
                 ELSE runEnd(str, rest, NonSpaceClass)
    IN  IF rest # 0 /\ e > rest THEN e - i ELSE 0

\* /"[^"]*"/g and /'[^']*'/g at i, quote the quotation mark
quotedLen(str, quote, i) ==
    LET close == IF str[i] = quote THEN indexOf(str, quote, i + 1) ELSE 0
    IN  IF close # 0 THEN close - i + 1 ELSE 0

\* /\s+/g at i
spaceLen(str, i) == runEnd(str, i, SpaceClass) - i

\* the placeholders
REPL_UUID == <<"<", "U", "U", "I", "D", ">">>
REPL_HEX == <<"<", "H", "E", "X", ">">>
REPL_N == <<"<", "N", ">">>
REPL_IP == <<"<", "I", "P", ">">>
REPL_EMAIL == <<"<", "E", "M", "A", "I", "L", ">">>
REPL_URL == <<"<", "U", "R", "L", ">">>
REPL_DQ == <<"\"", "<", "S", "T", "R", ">", "\"">>
REPL_SQ == <<"'", "<", "S", "T", "R", ">", "'">>

\* the length of the match of the expression of rule at position i, 0 if none
matchLen(rule, str, i) ==
    CASE rule = "uuid"   -> uuidLen(str, i)
      [] rule = "hex"    -> hexLen(str, i)
      [] rule = "number" -> numberLen(str, i)
      [] rule = "ip"     -> ipLen(str, i)
      [] rule = "email"  -> emailLen(str, i)
      [] rule = "url"    -> urlLen(str, i)
      [] rule = "dquote" -> quotedLen(str, "\"", i)
      [] rule = "squote" -> quotedLen(str, "'", i)
      [] rule = "space"  -> spaceLen(str, i)

\* what the matches of rule are replaced by
replacement(rule) ==
    CASE rule = "uuid"   -> REPL_UUID
      [] rule = "hex"    -> REPL_HEX
      [] rule = "number" -> REPL_N
      [] rule = "ip"     -> REPL_IP
      [] rule = "email"  -> REPL_EMAIL
      [] rule = "url"    -> REPL_URL
      [] rule = "dquote" -> REPL_DQ
      [] rule = "squote" -> REPL_SQ
      [] rule = "space"  -> <<" ">>

\* String.prototype.replace with a global expression, from position i on:
\* the leftmost match is replaced and the search goes on behind it; starts
\* holds the positions the expression matches at
RECURSIVE replaceFrom(_, _, _, _)
replaceFrom(rule, str, starts, i) ==
    LET ahead == {j \in starts : j >= i} IN
    IF ahead = {} THEN SubSeq(str, i, Len(str))
    ELSE LET j == CHOOSE j \in ahead : \A o \in ahead : j <= o
         IN  SubSeq(str, i, j - 1) \o replacement(rule)
                 \o replaceFrom(rule, str, starts, j + matchLen(rule, str, j))

replaceAll(rule, str) ==
    LET starts == {j \in 1..Len(str) : matchLen(rule, str, j) > 0}
    IN  IF starts = {} THEN str ELSE replaceFrom(rule, str, starts, 1)

\* String.prototype.trim
trim(str) ==
    LET inked == {k \in 1..Len(str) : str[k] \notin SpaceClass}
    IN  IF inked = {} THEN <<>>
        ELSE SubSeq(str, CHOOSE k \in inked : \A o \in inked : k <= o,
                         CHOOSE k \in inked : \A o \in inked : o <= k)

\* the replacements in the order extractPattern makes them
PatternRules == <<"uuid", "hex", "number", "ip", "email", "url", "dquote", "squote", "space">>

RECURSIVE applyRules(_, _, _)
applyRules(rules, str, n) ==
    IF n = 0 THEN str ELSE replaceAll(rules[n], applyRules(rules, str, n - 1))

extractPattern(message) == trim(applyRules(PatternRules, message, Len(PatternRules)))

-----------------------------------------------------------------------------
(* The callers of extractPattern: a message of up to MaxTokens pieces, and   *)
(* the message of the documentation; the pattern of a message is extracted,  *)
(* and then the pattern of that pattern                                      *)

\* the most pieces a message is made of
MaxTokens == 3

UuidToken ==
    <<"1", "2", "3", "e", "4", "5", "6", "7", "-", "e", "8", "9", "b", "-",
    "1", "2", "d", "3", "-", "a", "4", "5", "6", "-", "4", "2", "6", "6",
    "1", "4", "1", "7", "4", "0", "0", "0">>

HexToken ==
    <<"0", "1", "2", "3", "4", "5", "6", "7", "8", "9", "a", "b", "c", "d",
    "e", "f", "0", "1", "2", "3", "4", "5", "6", "7", "8", "9", "A", "B",
    "C", "D", "E", "F">>

IpToken == <<"1", "0", ".", "0", ".", "0", ".", "1">>

\* "User 123e4567-e89b-12d3-a456-426614174000 failed at 10.0.0.1"
ExampleMessage ==
    <<"U", "s", "e", "r", " ">> \o UuidToken
        \o <<" ", "f", "a", "i", "l", "e", "d", " ", "a", "t", " ">> \o IpToken

\* the pieces: numbers, words, separators, quotation marks, an URL, an
\* address, an IP address, an UUID and a hex string
Tokens ==
    {<<"5">>, <<"x">>, <<"a", "b", "1">>, <<" ">>, <<"\t">>, <<".">>, <<"-">>, <<"@">>,
     <<"\"">>, <<"'">>, <<"h", "t", "t", "p", ":", "/", "/", "x">>,
     <<"a", "@", "b", ".", "c">>, IpToken, UuidToken, HexToken}

RECURSIVE concat(_, _)
concat(pieces, n) == IF n = 0 THEN <<>> ELSE concat(pieces, n - 1) \o pieces[n]

\* the call to come, of the message
PendingPattern(message) ==
    [fn |-> "none", message |-> message, pattern |-> <<>>, again |-> <<>>]

\* const pattern = extractPattern(message)
ExtractPattern ==
    /\ call.fn = "none"
    /\ call' = [call EXCEPT !.fn = "extractPattern", !.pattern = extractPattern(call.message)]
    /\ UNCHANGED tailVars

\* extractPattern of the pattern extracted
ExtractPatternAgain ==
    /\ call.fn = "extractPattern"
    /\ call' = [call EXCEPT !.fn = "extractPatternAgain", !.again = extractPattern(call.pattern)]
    /\ UNCHANGED tailVars

InitPattern ==
    /\ seenIds = <<>>
    /\ lastTimestamp = toISOString(StartInstant)
    /\ running = TRUE
    /\ hasOnError = FALSE
    /\ timers = 0
    /\ inflight = 1
    /\ polls = 0
    /\ nextId = 1
    /\ cycle = NoCycle
    /\ onLogIds = {}
    /\ \/ call = PendingPattern(ExampleMessage)
       \/ \E n \in 0..MaxTokens : \E pieces \in [1..n -> Tokens] :
             call = PendingPattern(concat(pieces, n))

NextPattern == ExtractPattern \/ ExtractPatternAgain

SpecPattern == InitPattern /\ [][NextPattern]_vars

-----------------------------------------------------------------------------
(* Claims about extractPattern *)

\* C14: extractPattern is idempotent: the pattern of the pattern of a message
\* is the pattern of the message.
C14_Idempotent == call.fn = "extractPatternAgain" => call.again = call.pattern

\* no URL of the message begins right behind a word character
UrlsStandAlone ==
    \A i \in 1..Len(call.message) : urlLen(call.message, i) > 0 => ~wordAt(call.message, i - 1)

\* The part of C14 the code keeps: the pattern of a message whose URLs do not
\* begin right behind a word character is left as it is.
C14_IdempotentUrlsAlone ==
    (call.fn = "extractPatternAgain" /\ UrlsStandAlone) => call.again = call.pattern

\* the pattern of a message with a number, an URL behind a space and an
\* address was extracted twice
C14_AloneReached ==
    /\ call.fn = "extractPatternAgain" /\ UrlsStandAlone
    /\ call.again = REPL_N \o <<" ">> \o REPL_URL

\* "User <UUID> failed at <IP>"
ExamplePattern ==
    <<"U", "s", "e", "r", " ">> \o REPL_UUID
        \o <<" ", "f", "a", "i", "l", "e", "d", " ", "a", "t", " ">> \o REPL_IP

\* C15: a dotted-quad IPv4 address becomes <IP> and a canonical UUID becomes
\* <UUID>: the pattern of the message of the documentation is
\* "User <UUID> failed at <IP>", that of an IP address alone is <IP>, that of
\* an UUID alone is <UUID>.
C15_IpAndUuidMasked ==
    call.fn # "none" =>
        /\ call.message = ExampleMessage => call.pattern = ExamplePattern
        /\ call.message = IpToken => call.pattern = REPL_IP
        /\ call.message = UuidToken => call.pattern = REPL_UUID

\* The part of C15 the code keeps: an UUID becomes <UUID>; the numbers of an
\* IP address become <N> each.
C15_UuidMaskedIpNumbered ==
    call.fn # "none" =>
        /\ call.message = ExampleMessage =>
              call.pattern = <<"U", "s", "e", "r", " ">> \o REPL_UUID
                  \o <<" ", "f", "a", "i", "l", "e", "d", " ", "a", "t", " ">>
                  \o REPL_N \o <<".">> \o REPL_N \o <<".">> \o REPL_N \o <<".">> \o REPL_N
        /\ call.message = UuidToken => call.pattern = REPL_UUID

\* the pattern of the message of the documentation was extracted
C15_ExampleReached == call.fn = "extractPattern" /\ call.message = ExampleMessage
-----------------------------------------------------------------------------
(* getLogPatterns (src/unnamed/part_001): the messages of the logs fetched   *)
(* are clustered by their pattern                                            *)

\* const limit = options.limit ?? 500
DefaultLimit == 500

\* .slice(0, 50)
SliceEnd == 50

\* a log of the response, with or without attributes.message
RawMessage(hasMessage, message) == [hasMessage |-> hasMessage, message |-> message]

\* log.attributes?.message ?? ""
messageOf(log) == IF log.hasMessage THEN log.message ELSE <<>>

\* options.limit ?? 500: the page limit of the request
limitOf(options) == IF options.hasLimit THEN options.limit ELSE DefaultLimit

\* patternMap.get(pattern): the place of the pattern among the entries of the
\* map, which are kept in the order they were set; 0 when it has none
getPattern(patternMap, pattern) ==
    IF \E i \in DOMAIN patternMap : patternMap[i].pattern = pattern
    THEN CHOOSE i \in DOMAIN patternMap : patternMap[i].pattern = pattern
    ELSE 0

\* a variant that keeps the message seen last as the sample
countPatternLastSample(patternMap, pattern, message) ==
    IF getPattern(patternMap, pattern) > 0
    THEN [patternMap EXCEPT ![getPattern(patternMap, pattern)] =
              [@ EXCEPT !.count = @ + 1, !.sample = message]]
    ELSE Append(patternMap, [pattern |-> pattern, count |-> 1, sample |-> message])

\* if (existing) existing.count++ else patternMap.set(pattern, {count: 1, sample: message})
countPattern(patternMap, pattern, message) ==
    IF getPattern(patternMap, pattern) > 0
    THEN [patternMap EXCEPT ![getPattern(patternMap, pattern)].count = @ + 1]
    ELSE Append(patternMap, [pattern |-> pattern, count |-> 1, sample |-> message])

\* the loop over the logs lo..hi of response.data, in order, from the entries
\* patternMap (split in halves, the first of which is done before the second
\* begins, which keeps the evaluation shallow for a long response)
RECURSIVE collectPatterns(_, _, _, _)
collectPatterns(data, lo, hi, patternMap) ==
    IF lo > hi THEN patternMap
    ELSE IF lo = hi
    THEN countPattern(patternMap, extractPattern(messageOf(data[lo])), messageOf(data[lo]))
    ELSE LET mid  == (lo + hi) \div 2
             left == collectPatterns(data, lo, mid, patternMap)
         IN  IF Len(left) > 0 THEN collectPatterns(data, mid + 1, hi, left) ELSE left

\* the place the entry at position i takes in .sort((a, b) => b[1].count - a[1].count):
\* behind the entries of greater count and behind the entries of equal count
\* that stand before it (the sort is stable)
sortedPlace(entries, i) ==
    Cardinality({j \in DOMAIN entries :
        \/ entries[j].count > entries[i].count
        \/ entries[j].count = entries[i].count /\ j < i}) + 1

sortByCount(entries) ==
    [k \in DOMAIN entries |->
        entries[CHOOSE i \in DOMAIN entries : sortedPlace(entries, i) = k]]

\* a variant that does not cut the list
sliceAll(entries) == entries

\* .slice(0, 50)
slice(entries) ==
    SubSeq(entries, 1, IF Len(entries) < SliceEnd THEN Len(entries) ELSE SliceEnd)

\* getLogPatterns, given the response of logsApi.listLogs: the entries of
\* patternMap, the patterns returned and meta.totalLogs
getLogPatterns(response) ==
    LET data == IF response.hasData THEN response.data ELSE <<>>
    IN  [patternMap |-> collectPatterns(data, 1, Len(data), <<>>),
         patterns   |-> slice(sortByCount(collectPatterns(data, 1, Len(data), <<>>))),
         totalLogs  |-> Len(data)]

-----------------------------------------------------------------------------
(* The callers of getLogPatterns: the limit of the options or none, and a    *)
(* response of at most that many logs: a few logs whose messages share       *)
(* patterns, or many logs of different patterns                              *)

\* the most logs of a short response
MaxLogs == 3

\* the most different messages of a long response
MaxBulkLogs == 52

\* messages of the patterns "<N>", "x", "y" and ""
SmallMessages ==
    {RawMessage(TRUE, <<"5">>), RawMessage(TRUE, <<"7">>),
     RawMessage(TRUE, <<"x">>), RawMessage(TRUE, <<" ", "x">>),
     RawMessage(TRUE, <<"y">>), RawMessage(TRUE, <<>>), RawMessage(FALSE, <<>>)}

BulkLetters == <<"g", "h", "j", "k", "m", "n", "p", "q">>

\* the i-th of the messages of different patterns
BulkMessage(i) ==
    RawMessage(TRUE, <<BulkLetters[((i - 1) \div 8) + 1], BulkLetters[((i - 1) % 8) + 1]>>)

\* the first n of these messages, and the k-th of them `extra' times more
BulkData(n, k, extra) ==
    [i \in 1..(n + extra) |-> IF i <= n THEN BulkMessage(i) ELSE BulkMessage(k)]

NoLimit == [hasLimit |-> FALSE, limit |-> 0]

GivenLimit(limit) == [hasLimit |-> TRUE, limit |-> limit]

\* the call to come, of the options and the response
PendingPatterns(options, response) ==
    [fn |-> "none", options |-> options, response |-> response, templates |-> <<>>,
     result |-> [patternMap |-> <<>>, patterns |-> <<>>, totalLogs |-> 0]]

\* const result = await getLogPatterns(clients.logsApi, options); the
\* patterns of the messages fetched are noted by position
GetLogPatterns ==
    /\ call.fn = "none"
    /\ \E data \in {IF call.response.hasData THEN call.response.data ELSE <<>>} :
          call' = [call EXCEPT !.fn = "getLogPatterns",
                      !.templates = [i \in DOMAIN data |-> extractPattern(messageOf(data[i]))],
                      !.result = getLogPatterns(call.response)]
    /\ UNCHANGED tailVars

InitPatterns ==
    /\ seenIds = <<>>
    /\ lastTimestamp = toISOString(StartInstant)
    /\ running = TRUE
    /\ hasOnError = FALSE
    /\ timers = 0
    /\ inflight = 1
    /\ polls = 0
    /\ nextId = 1
    /\ cycle = NoCycle
    /\ onLogIds = {}
    /\ \E options \in {NoLimit} \cup {GivenLimit(limit) : limit \in 1..MaxLogs}
                      \cup {GivenLimit(MaxBulkLogs + 1)} :
          \/ call = PendingPatterns(options, [hasData |-> FALSE, data |-> <<>>])
          \/ \E n \in 0..MaxLogs : \E data \in [1..n -> SmallMessages] :
                /\ n <= limitOf(options)
                /\ call = PendingPatterns(options, [hasData |-> TRUE, data |-> data])
          \/ \E n \in (SliceEnd - 1)..MaxBulkLogs, extra \in 0..1 : \E k \in {1, n} :
                /\ n + extra <= limitOf(options)
                /\ call = PendingPatterns(options,
                              [hasData |-> TRUE, data |-> BulkData(n, k, extra)])

NextPatterns == GetLogPatterns

SpecPatterns == InitPatterns /\ [][NextPatterns]_vars

-----------------------------------------------------------------------------
(* Claims about getLogPatterns *)

\* the fetched messages, and the position of the first of them of a pattern
FetchedData == IF call.response.hasData THEN call.response.data ELSE <<>>

FirstSeen(pattern) ==
    CHOOSE i \in DOMAIN call.templates :
        call.templates[i] = pattern /\ \A j \in 1..(i - 1) : call.templates[j] # pattern

\* the most clusters the caller asks for: the limit given, 50 when none is
ResultLimit == IF call.options.hasLimit THEN call.options.limit ELSE SliceEnd

C17_OneClusterPerTemplate ==
    call.fn = "getLogPatterns" =>
        LET patternMap == call.result.patternMap
            patterns   == call.result.patterns
        IN  /\ \A i \in DOMAIN call.templates :
                  Cardinality({c \in DOMAIN patternMap :
                      patternMap[c].pattern = call.templates[i]}) = 1
            /\ \A c \in DOMAIN patternMap :
                  /\ patternMap[c].count =
                        Cardinality({i \in DOMAIN call.templates :
                            call.templates[i] = patternMap[c].pattern})
                  /\ patternMap[c].count >= 1
                  /\ patternMap[c].sample = messageOf(FetchedData[FirstSeen(patternMap[c].pattern)])
            /\ \A p \in DOMAIN patterns : \E c \in DOMAIN patternMap : patterns[p] = patternMap[c]
            /\ \A p, q \in DOMAIN patterns : patterns[p].pattern = patterns[q].pattern => p = q

\* three messages were fetched, the first and the last of the pattern <N>:
\* its cluster counts 2 and has the first message as its sample
C17_Witness ==
    /\ call.fn = "getLogPatterns"
    /\ FetchedData = <<RawMessage(TRUE, <<"5">>), RawMessage(TRUE, <<"x">>), RawMessage(TRUE, <<"7">>)>>
    /\ call.result.patterns =
          <<[pattern |-> REPL_N, count |-> 2, sample |-> <<"5">>],
            [pattern |-> <<"x">>, count |-> 1, sample |-> <<"x">>]>>
-----------------------------------------------------------------------------
(* comparePeriods (src/unnamed/part_001): the count of a query in the period *)
(* that ends now and in the period before it                                 *)

\* if (!match) return 5 * 60 * 1000
DefaultDurationMs == 5 * 60 * 1000

\* duration.match(/^(\d+)([smhd])$/): the digits and the unit, or no match
matchDuration(duration) ==
    IF /\ Len(duration) >= 2
       /\ duration[Len(duration)] \in {"s", "m", "h", "d"}
       /\ \A i \in 1..(Len(duration) - 1) : IsDigit(duration[i])
    THEN [matched |-> TRUE, value |-> SubSeq(duration, 1, Len(duration) - 1),
          unit |-> duration[Len(duration)]]
    ELSE [matched |-> FALSE, value |-> <<>>, unit |-> ""]

parseDurationToMs(duration) ==
    LET m   == matchDuration(duration)
        num == parseInt(m.value)
    IN  IF ~m.matched THEN DefaultDurationMs
        ELSE IF m.unit = "s" THEN num * 1000
        ELSE IF m.unit = "m" THEN num * 60 * 1000
        ELSE IF m.unit = "h" THEN num * 60 * 60 * 1000
        ELSE num * 24 * 60 * 60 * 1000

\* the four bounds of the two filters, of the period and the clock
periodBounds(period, now) ==
    LET periodMs == parseDurationToMs(period)
    IN  [currentTo    |-> toISOString(now),
         currentFrom  |-> toISOString(now - periodMs),
         previousTo   |-> toISOString(now - periodMs),
         previousFrom |-> toISOString(now - periodMs * 2)]

\* the backend: its logs that match the query, as groups of `count' logs of
\* one timestamp, and whether it takes the logs of the timestamp filter.to
\* into a count (filter.from and filter.to are the same kind of bound for
\* every request; the logs of the timestamp filter.from are taken)
Backend(toInclusive, groups) == [toInclusive |-> toInclusive, groups |-> groups]

\* the backend counts the logs of the timestamp at under the filter from..to
counted(backend, from, to, at) ==
    /\ DateParse(from, InvalidDate).ms <= at
    /\ \/ at < DateParse(to, InvalidDate).ms
       \/ backend.toInclusive /\ at = DateParse(to, InvalidDate).ms

RECURSIVE countLogs(_, _, _, _)
countLogs(backend, from, to, n) ==
    IF n = 0 THEN 0
    ELSE countLogs(backend, from, to, n - 1)
            + (IF counted(backend, from, to, backend.groups[n].at)
               THEN backend.groups[n].count ELSE 0)

\* logsApi.aggregateLogs with compute total count and no groupBy: the
\* responses the backend may give, data.buckets[0].computes.c0 being the
\* count; a backend may leave the buckets out when nothing matches
aggregateLogs(backend, from, to) ==
    LET c0 == countLogs(backend, from, to, Len(backend.groups))
    IN  {[hasC0 |-> TRUE, c0 |-> c0]}
            \cup (IF c0 = 0 THEN {[hasC0 |-> FALSE, c0 |-> 0]} ELSE {})

\* (res.data?.buckets?.[0]?.computes?.["c0"] as number) ?? 0
countOf(res) == IF res.hasC0 THEN res.c0 ELSE 0

\* percentage, as the fraction num / den
percentageOf(currentCount, previousCount) ==
    IF previousCount > 0
    THEN [num |-> (currentCount - previousCount) * 100, den |-> previousCount]
    ELSE IF currentCount > 0 THEN [num |-> 100, den |-> 1] ELSE [num |-> 0, den |-> 1]

\* a variant that drops the digits behind the first decimal: Math.trunc(percentage * 10)
truncTimes10(percentage) ==
    LET n == 10 * percentage.num
        d == percentage.den
    IN  {IF n >= 0 THEN n \div d ELSE -((-n) \div d)}

\* Math.round(percentage * 10): the integer next to percentage * 10, the
\* greater one when it lies halfway between two.  percentage is a double
\* that may lie just below the fraction, so that where the fraction times 10
\* lies halfway between two integers the result is either of them.
roundTimes10(percentage) ==
    LET n     == 10 * percentage.num
        d     == percentage.den
        up    == (2 * n + d) \div (2 * d)
        halfway == (2 * n) % d = 0 /\ ((2 * n) \div d) % 2 = 1
    IN  IF halfway THEN {up - 1, up} ELSE {up}

\* comparePeriods, given the responses to the two requests: the results it
\* may return; change.percentage is held in tenths, being
\* Math.round(percentage * 10) / 10
comparePeriods(period, now, currentRes, previousRes) ==
    LET bounds        == periodBounds(period, now)
        currentCount  == countOf(currentRes)
        previousCount == countOf(previousRes)
        absolute      == currentCount - previousCount
    IN  {[current  |-> [count |-> currentCount,
                        timeRange |-> [from |-> bounds.currentFrom, to |-> bounds.currentTo]],
          previous |-> [count |-> previousCount,
                        timeRange |-> [from |-> bounds.previousFrom, to |-> bounds.previousTo]],
          change   |-> [absolute |-> absolute, percentage |-> tenths]] :
            tenths \in roundTimes10(percentageOf(currentCount, previousCount))}

-----------------------------------------------------------------------------
(* The callers of comparePeriods: a period, and a backend with logs in the   *)
(* middle of each period, at the instant between the two and at the clock    *)

\* the greatest number of a period
MaxPeriod == 2

\* the most logs in the middle of a period
MaxCount == 17

\* periods of seconds, minutes, hours and days, "1w" and ""
Periods ==
    {Decimal(n) \o <<u>> : n \in 0..MaxPeriod, u \in {"s", "m", "h", "d"}}
        \cup {<<"1", "w">>, <<>>}

\* the counts of the documentation are among the counts
Counts == 0..MaxCount \cup {5, 150, 200}

\* a backend with inCurrent logs just before the clock, inPrevious logs just
\* before the instant one period before the clock, atBetween logs at that
\* instant and atNow logs at the clock
BackendOf(toInclusive, period, now, inCurrent, inPrevious, atBetween, atNow) ==
    Backend(toInclusive,
        <<[at |-> now - 1, count |-> inCurrent],
          [at |-> now - parseDurationToMs(period) - 1, count |-> inPrevious],
          [at |-> now - parseDurationToMs(period), count |-> atBetween],
          [at |-> now, count |-> atNow]>>)

NoResponse0 == [hasC0 |-> FALSE, c0 |-> 0]

\* the call to come, of the period, the clock and the backend
PendingCompare(period, now, backend) ==
    [fn |-> "none", period |-> period, now |-> now, backend |-> backend,
     currentRes |-> NoResponse0, previousRes |-> NoResponse0,
     result |-> [current  |-> [count |-> 0, timeRange |-> [from |-> <<>>, to |-> <<>>]],
                 previous |-> [count |-> 0, timeRange |-> [from |-> <<>>, to |-> <<>>]],
                 change   |-> [absolute |-> 0, percentage |-> 0]]]

\* const result = await comparePeriods(clients.logsApi, {query, period}):
\* the two requests are answered by the backend
ComparePeriods ==
    /\ call.fn = "none"
    /\ \E bounds \in {periodBounds(call.period, call.now)} :
       \E currentRes \in aggregateLogs(call.backend, bounds.currentFrom, bounds.currentTo),
          previousRes \in aggregateLogs(call.backend, bounds.previousFrom, bounds.previousTo) :
       \E result \in comparePeriods(call.period, call.now, currentRes, previousRes) :
          call' = [call EXCEPT !.fn = "comparePeriods", !.currentRes = currentRes,
                      !.previousRes = previousRes, !.result = result]
    /\ UNCHANGED tailVars

InitCompare ==
    /\ seenIds = <<>>
    /\ lastTimestamp = toISOString(StartInstant)
    /\ running = TRUE
    /\ hasOnError = FALSE
    /\ timers = 0
    /\ inflight = 1
    /\ polls = 0
    /\ nextId = 1
    /\ cycle = NoCycle
    /\ onLogIds = {}
    /\ \E period \in Periods, toInclusive \in BOOLEAN :
       \E inCurrent \in Counts, inPrevious \in Counts, atBetween \in 0..1, atNow \in 0..1 :
          call = PendingCompare(period, StartInstant,
                    BackendOf(toInclusive, period, StartInstant,
                              inCurrent, inPrevious, atBetween, atNow))

NextCompare == ComparePeriods

SpecCompare == InitCompare /\ [][NextCompare]_vars

-----------------------------------------------------------------------------
(* Claims about comparePeriods *)

\* C18: with current and previous the counts of the two responses, absolute
\* is current - previous, and percentage is (absolute / previous) * 100
\* rounded to one decimal place when previous > 0 (no value of one decimal
\* place is nearer), 100 when previous = 0 and current > 0, and 0 when both
\* are 0; previous 0 and current 5 give 5 and 100, previous 200 and current
\* 150 give -50 and -25.0.
C18_AbsoluteAndPercentage ==
    call.fn = "comparePeriods" =>
        LET current  == countOf(call.currentRes)
            previous == countOf(call.previousRes)
            absolute == call.result.change.absolute
            tenths   == call.result.change.percentage
            distance == 2 * tenths * previous - 2000 * (current - previous)
        IN  /\ call.result.current.count = current
            /\ call.result.previous.count = previous
            /\ absolute = current - previous
            /\ previous > 0 => distance <= previous /\ -distance <= previous
            /\ (previous = 0 /\ current > 0) => tenths = 1000
            /\ (previous = 0 /\ current = 0) => tenths = 0
            /\ (previous = 0 /\ current = 5) => (absolute = 5 /\ tenths = 1000)
            /\ (previous = 200 /\ current = 150) => (absolute = -50 /\ tenths = -250)

\* the counts 150 and 200 were compared
C18_Witness ==
    /\ call.fn = "comparePeriods"
    /\ call.result.current.count = 150 /\ call.result.previous.count = 200
    /\ call.result.change = [absolute |-> -50, percentage |-> -250]

\* the period of the call, in milliseconds
PeriodMs == parseDurationToMs(call.period)

\* the logs of the timestamp at are counted in the current, the previous count
InCurrentCount(at) ==
    counted(call.backend, call.result.current.timeRange.from,
            call.result.current.timeRange.to, at)

InPreviousCount(at) ==
    counted(call.backend, call.result.previous.timeRange.from,
            call.result.previous.timeRange.to, at)

\* C19: the current count is of the logs in [now - period, now], the previous
\* count is of the logs in [now - 2 * period, now - period): the two windows
\* are of equal length and adjacent, and no log is counted in both.
C19_WindowsAdjacentDisjoint ==
    call.fn = "comparePeriods" =>
        \A g \in DOMAIN call.backend.groups :
            LET at == call.backend.groups[g].at
            IN  /\ InCurrentCount(at) <=> (call.now - PeriodMs <= at /\ at <= call.now)
                /\ InPreviousCount(at) <=>
                      (call.now - 2 * PeriodMs <= at /\ at < call.now - PeriodMs)
                /\ ~(InCurrentCount(at) /\ InPreviousCount(at))

\* The part of C19 the code keeps: the bounds of the two filters are
\* now - 2 * period, now - period and now, the end of the previous one being
\* the start of the current one.
C19_BoundsAdjacent ==
    call.fn = "comparePeriods" =>
        /\ call.result.current.timeRange.to = toISOString(call.now)
        /\ call.result.current.timeRange.from = toISOString(call.now - PeriodMs)
        /\ call.result.previous.timeRange.to = call.result.current.timeRange.from
        /\ call.result.previous.timeRange.from = toISOString(call.now - 2 * PeriodMs)

\* a log at the instant between the two periods of one hour was counted
C19_BetweenReached ==
    /\ call.fn = "comparePeriods"
    /\ call.period = <<"1", "h">>
    /\ call.backend.groups[3].count = 1
    /\ InCurrentCount(call.now - MsPerHour)
-----------------------------------------------------------------------------
(* getErrorSummary (src/unnamed/part_001) and getSpanErrors                  *)
(* (src/lib/output.ts): the errors of a time range by group                  *)

\* truncateMessage(message, maxLength = 100)
MaxLength == 100

\* .slice(0, 10)
TopMessagesEnd == 10

\* a bucket of an aggregate response: the value of the facet in by, when by
\* is there and holds the facet, and the count c0, when there is one
Bucket(hasFacet, facet, hasC0, c0) ==
    [hasFacet |-> hasFacet, facet |-> facet, hasC0 |-> hasC0, c0 |-> c0]

\* String(value) of a facet value, a string or a number
StringOf(value) == IF value.type = "number" THEN Decimal(value.value) ELSE value.value

\* a variant that pushes a group for every bucket
groupsOfEvery(buckets) ==
    [i \in DOMAIN buckets |->
        [key   |-> IF buckets[i].hasFacet THEN StringOf(buckets[i].facet)
                   ELSE <<"u", "n", "d", "e", "f", "i", "n", "e", "d">>,
         count |-> IF buckets[i].hasC0 THEN buckets[i].c0 ELSE 0]]

\* the loop over the buckets: a group {key: String(value), count: count ?? 0}
\* is pushed for each bucket whose facet value is not undefined
RECURSIVE groupsUpTo(_, _)
groupsUpTo(buckets, n) ==
    IF n = 0 THEN <<>>
    ELSE IF buckets[n].hasFacet
    THEN Append(groupsUpTo(buckets, n - 1),
                [key   |-> StringOf(buckets[n].facet),
                 count |-> IF buckets[n].hasC0 THEN buckets[n].c0 ELSE 0])
    ELSE groupsUpTo(buckets, n - 1)

groupsOf(buckets) == groupsUpTo(buckets, Len(buckets))

\* if (res.data?.buckets): the buckets of a response of logsApi.aggregateLogs
logBuckets(res) == IF res.hasData /\ res.hasBuckets THEN res.buckets ELSE <<>>

\* if (res.data): the buckets of a response of spansApi.aggregateSpans
spanBuckets(res) == IF res.hasData THEN res.data ELSE <<>>

\* truncateMessage: whitespace runs become one space, the ends are trimmed,
\* and a message longer than maxLength is cut and gets "..."
truncateMessage(message) ==
    LET cleaned == trim(replaceAll("space", message))
    IN  IF Len(cleaned) <= MaxLength THEN cleaned
        ELSE SubSeq(cleaned, 1, MaxLength) \o <<".", ".", ".">>

\* messageCounts.set(msg, (messageCounts.get(msg) ?? 0) + 1), the entries
\* of the map being kept in the order they were set
countMessage(messageCounts, msg) ==
    IF \E i \in DOMAIN messageCounts : messageCounts[i].message = msg
    THEN [messageCounts EXCEPT
             ![CHOOSE i \in DOMAIN messageCounts : messageCounts[i].message = msg].count = @ + 1]
    ELSE Append(messageCounts, [message |-> msg, count |-> 1])

RECURSIVE countMessages(_, _)
countMessages(data, n) ==
    IF n = 0 THEN <<>>
    ELSE countMessage(countMessages(data, n - 1), truncateMessage(messageOf(data[n])))

\* the entries sorted by b[1] - a[1], the first 10 of them
topMessagesOf(res) ==
    LET data   == IF res.hasData THEN res.data ELSE <<>>
        sorted == sortByCount(countMessages(data, Len(data)))
    IN  SubSeq(sorted, 1, IF Len(sorted) < TopMessagesEnd THEN Len(sorted) ELSE TopMessagesEnd)

\* total: the count of the first bucket of the response without groupBy,
\* when it is truthy
totalOf(res) ==
    IF /\ res.hasData /\ res.hasBuckets /\ Len(res.buckets) > 0
       /\ res.buckets[1].hasC0 /\ res.buckets[1].c0 # 0
    THEN res.buckets[1].c0
    ELSE 0

getErrorSummary(byServiceRes, byStatusRes, totalRes, messagesRes) ==
    [raised      |-> FALSE,
     total       |-> totalOf(totalRes),
     byService   |-> groupsOf(logBuckets(byServiceRes)),
     byStatus    |-> groupsOf(logBuckets(byStatusRes)),
     topMessages |-> topMessagesOf(messagesRes)]

\* span.attributes?.spanId ?? span.id ?? "", of normalizeSpan
spanIdOf(span) ==
    IF span.hasSpanId THEN span.spanId ELSE IF span.hasId THEN span.id ELSE <<>>

\* byService.reduce((sum, s) => sum + s.count, 0)
RECURSIVE sumCounts(_, _)
sumCounts(groups, n) == IF n = 0 THEN 0 ELSE sumCounts(groups, n - 1) + groups[n].count

\* getSpanErrors; of a recent error the span id is held
getSpanErrors(byServiceRes, byResourceRes, recentRes) ==
    LET byService == groupsOf(spanBuckets(byServiceRes))
        recent    == IF recentRes.hasData THEN recentRes.data ELSE <<>>
    IN  [raised       |-> FALSE,
         total        |-> sumCounts(byService, Len(byService)),
         byService    |-> byService,
         byResource   |-> groupsOf(spanBuckets(byResourceRes)),
         recentErrors |-> [i \in DOMAIN recent |-> spanIdOf(recent[i])]]

-----------------------------------------------------------------------------
(* The callers of getErrorSummary and getSpanErrors: responses without data, *)
(* without buckets, with no bucket and with up to MaxBuckets buckets         *)

\* the most buckets of a response
MaxBuckets == 2

\* a bucket of a group, one of a group named by a number and without count,
\* and one of no group
Buckets ==
    {Bucket(TRUE, [type |-> "string", value |-> <<"w", "e", "b">>], TRUE, 3),
     Bucket(TRUE, [type |-> "number", value |-> 5], FALSE, 0),
     Bucket(FALSE, [type |-> "string", value |-> <<>>], TRUE, 0)}

LogAggregates ==
    {[hasData |-> FALSE, hasBuckets |-> FALSE, buckets |-> <<>>],
     [hasData |-> TRUE, hasBuckets |-> FALSE, buckets |-> <<>>]}
        \cup UNION {{[hasData |-> TRUE, hasBuckets |-> TRUE, buckets |-> b] :
                        b \in [1..n -> Buckets]} : n \in 0..MaxBuckets}

\* responses to the request without groupBy: at most one bucket
LogTotals ==
    {r \in LogAggregates : Len(r.buckets) = 0}
        \cup {[hasData |-> TRUE, hasBuckets |-> TRUE, buckets |-> <<b>>] :
                 b \in {Bucket(FALSE, [type |-> "string", value |-> <<>>], TRUE, 0),
                        Bucket(FALSE, [type |-> "string", value |-> <<>>], FALSE, 0),
                        Bucket(FALSE, [type |-> "string", value |-> <<>>], TRUE, 4)}}

SpanAggregates ==
    {[hasData |-> FALSE, data |-> <<>>]}
        \cup UNION {{[hasData |-> TRUE, data |-> b] : b \in [1..n -> Buckets]} :
                        n \in 0..MaxBuckets}

\* a message of more than maxLength characters
LongMessage == [i \in 1..(MaxLength + 1) |-> "e"]

MessageLists ==
    {[hasData |-> FALSE, data |-> <<>>], [hasData |-> TRUE, data |-> <<>>],
     [hasData |-> TRUE, data |-> <<RawMessage(TRUE, <<"e", " ", " ", "x">>)>>],
     [hasData |-> TRUE, data |-> <<RawMessage(TRUE, <<"y">>), RawMessage(TRUE, <<"e", " ", "x">>),
                                   RawMessage(TRUE, <<"e", "\t", "x", " ">>)>>],
     [hasData |-> TRUE, data |-> <<RawMessage(TRUE, LongMessage), RawMessage(FALSE, <<>>)>>]}

RecentLists ==
    {[hasData |-> FALSE, data |-> <<>>], [hasData |-> TRUE, data |-> <<>>],
     [hasData |-> TRUE, data |-> <<[hasSpanId |-> TRUE, spanId |-> <<"a">>, hasId |-> TRUE, id |-> <<"b">>],
                                   [hasSpanId |-> FALSE, spanId |-> <<>>, hasId |-> TRUE, id |-> <<"b">>],
                                   [hasSpanId |-> FALSE, spanId |-> <<>>, hasId |-> FALSE, id |-> <<>>]>>]}

\* the calls to come, of the responses
PendingLogSummary(byServiceRes, byStatusRes, totalRes, messagesRes) ==
    [fn |-> "none", api |-> "logs", byServiceRes |-> byServiceRes, byStatusRes |-> byStatusRes,
     totalRes |-> totalRes, messagesRes |-> messagesRes, result |-> [raised |-> FALSE]]

PendingSpanSummary(byServiceRes, byResourceRes, recentRes) ==
    [fn |-> "none", api |-> "spans", byServiceRes |-> byServiceRes,
     byResourceRes |-> byResourceRes, recentRes |-> recentRes, result |-> [raised |-> FALSE]]

\* const result = await getErrorSummary(clients.logsApi, options)
GetErrorSummary ==
    /\ call.fn = "none" /\ call.api = "logs"
    /\ call' = [call EXCEPT !.fn = "getErrorSummary",
                   !.result = getErrorSummary(call.byServiceRes, call.byStatusRes,
                                              call.totalRes, call.messagesRes)]
    /\ UNCHANGED tailVars

\* const result = await getSpanErrors(clients.spansApi, options)
GetSpanErrors ==
    /\ call.fn = "none" /\ call.api = "spans"
    /\ call' = [call EXCEPT !.fn = "getSpanErrors",
                   !.result = getSpanErrors(call.byServiceRes, call.byResourceRes,
                                            call.recentRes)]
    /\ UNCHANGED tailVars

InitSummary ==
    /\ seenIds = <<>>
    /\ lastTimestamp = toISOString(StartInstant)
    /\ running = TRUE
    /\ hasOnError = FALSE
    /\ timers = 0
    /\ inflight = 1
    /\ polls = 0
    /\ nextId = 1
    /\ cycle = NoCycle
    /\ onLogIds = {}
    /\ \/ \E byServiceRes \in LogAggregates, byStatusRes \in LogAggregates,
             totalRes \in LogTotals, messagesRes \in MessageLists :
             call = PendingLogSummary(byServiceRes, byStatusRes, totalRes, messagesRes)
       \/ \E byServiceRes \in SpanAggregates, byResourceRes \in SpanAggregates,
             recentRes \in RecentLists :
             call = PendingSpanSummary(byServiceRes, byResourceRes, recentRes)

NextSummary == GetErrorSummary \/ GetSpanErrors

SpecSummary == InitSummary /\ [][NextSummary]_vars

-----------------------------------------------------------------------------
(* Claims about getErrorSummary and getSpanErrors *)

\* no bucket of the list is of a group, and none counts a record
NoGroupBuckets(buckets) ==
    \A i \in DOMAIN buckets : ~buckets[i].hasFacet /\ (buckets[i].hasC0 => buckets[i].c0 = 0)

\* the requests of the call matched no record
ZeroRecords ==
    IF call.api = "logs"
    THEN /\ NoGroupBuckets(call.byServiceRes.buckets)
         /\ NoGroupBuckets(call.byStatusRes.buckets)
         /\ NoGroupBuckets(call.totalRes.buckets)
         /\ call.messagesRes.data = <<>>
    ELSE /\ NoGroupBuckets(call.byServiceRes.data)
         /\ NoGroupBuckets(call.byResourceRes.data)
         /\ call.recentRes.data = <<>>

\* C20: an error summary whose requests match no record, the responses
\* being without data, without buckets or without groups, is returned
\* without an error, with total 0 and every list of it empty.
C20_EmptySummary ==
    (call.fn \in {"getErrorSummary", "getSpanErrors"} /\ ZeroRecords) =>
        /\ ~call.result.raised
        /\ call.result.total = 0
        /\ call.result.byService = <<>>
        /\ call.fn = "getErrorSummary" =>
              call.result.byStatus = <<>> /\ call.result.topMessages = <<>>
        /\ call.fn = "getSpanErrors" =>
              call.result.byResource = <<>> /\ call.result.recentErrors = <<>>

\* a summary of logs was returned for responses without data and without
\* buckets
C20_WitnessLogs ==
    /\ call.fn = "getErrorSummary" /\ ZeroRecords
    /\ ~call.byServiceRes.hasData /\ ~call.totalRes.hasData /\ ~call.messagesRes.hasData
    /\ call.byStatusRes.hasData /\ ~call.byStatusRes.hasBuckets

\* a summary of spans was returned for a response that holds a bucket of no
\* group with the count 0, and one without data
C20_WitnessSpans ==
    /\ call.fn = "getSpanErrors" /\ ZeroRecords
    /\ Len(call.byServiceRes.data) = 1 /\ ~call.byResourceRes.hasData
-----------------------------------------------------------------------------
(* normalizeSpan (src/lib/output.ts): the duration, the status and the       *)
(* timestamp of a span                                                       *)

\* a value of the attribute "error": none, null, or an object of so many keys
NoValue == [kind |-> "undefined", keys |-> 0]

NullValue == [kind |-> "null", keys |-> 0]

ObjectValue(keys) == [kind |-> "object", keys |-> keys]

\* the truthiness of such a value: an object is truthy, also an empty one
truthyValue(value) == value.kind = "object"

\* a span of the backend: attributes or none, in them startTimestamp and
\* endTimestamp, additionalProperties.status, additionalProperties.error and
\* custom.error, each optional
RawSpan(hasAttributes, hasStart, start, hasEnd, end, status, errorInProps, errorInCustom) ==
    [hasAttributes |-> hasAttributes, hasStart |-> hasStart, start |-> start,
     hasEnd |-> hasEnd, end |-> end, status |-> status,
     errorInProps |-> errorInProps, errorInCustom |-> errorInCustom]

\* a variant that gives the duration 0 to a span without the two timestamps
durationOrZero(span) ==
    IF span.hasAttributes /\ span.hasStart /\ span.hasEnd
    THEN [has |-> TRUE, ms |-> span.end - span.start]
    ELSE [has |-> TRUE, ms |-> 0]

\* let duration; if (startTs && endTs) duration = endTs.getTime() - startTs.getTime()
durationOf(span) ==
    IF span.hasAttributes /\ span.hasStart /\ span.hasEnd
    THEN [has |-> TRUE, ms |-> span.end - span.start]
    ELSE [has |-> FALSE, ms |-> 0]

\* a variant that does not look at custom.error
statusWithoutCustom(span) ==
    IF /\ span.hasAttributes
       /\ \/ span.status = Given(<<"e", "r", "r", "o", "r">>)
          \/ truthyValue(span.errorInProps)
    THEN "error" ELSE "ok"

\* statusFromProps === "error" || errorInProps || errorInCustom ? "error" : "ok"
statusOf(span) ==
    IF /\ span.hasAttributes
       /\ \/ span.status = Given(<<"e", "r", "r", "o", "r">>)
          \/ truthyValue(span.errorInProps)
          \/ truthyValue(span.errorInCustom)
    THEN "error" ELSE "ok"

\* normalizeSpan, the fields timestamp, duration and status
normalizeSpan(span) ==
    [timestamp |-> IF span.hasAttributes /\ span.hasStart THEN toISOString(span.start) ELSE <<>>,
     duration  |-> durationOf(span),
     status    |-> statusOf(span)]

-----------------------------------------------------------------------------
(* The callers of normalizeSpan: spans with and without attributes,          *)
(* timestamps, status and errors                                             *)

\* the start and end instants: end before, at and after start
SpanInstants == {StartInstant, StartInstant + 250}

StatusValues ==
    {Omitted, Given(<<"e", "r", "r", "o", "r">>), Given(<<"o", "k">>),
     Given(<<"E", "R", "R", "O", "R">>)}

ErrorValues == {NoValue, NullValue, ObjectValue(0), ObjectValue(2)}

\* the call to come, of the span
PendingSpan(span) ==
    [fn |-> "none", span |-> span,
     result |-> [timestamp |-> <<>>, duration |-> [has |-> FALSE, ms |-> 0], status |-> "ok"]]

\* spans.push(normalizeSpan(span))
NormalizeSpan ==
    /\ call.fn = "none"
    /\ call' = [call EXCEPT !.fn = "normalizeSpan", !.result = normalizeSpan(call.span)]
    /\ UNCHANGED tailVars

InitSpan ==
    /\ seenIds = <<>>
    /\ lastTimestamp = toISOString(StartInstant)
    /\ running = TRUE
    /\ hasOnError = FALSE
    /\ timers = 0
    /\ inflight = 1
    /\ polls = 0
    /\ nextId = 1
    /\ cycle = NoCycle
    /\ onLogIds = {}
    /\ \/ call = PendingSpan(RawSpan(FALSE, FALSE, 0, FALSE, 0, Omitted, NoValue, NoValue))
       \/ \E hasStart \in BOOLEAN, hasEnd \in BOOLEAN, start \in SpanInstants, end \in SpanInstants,
             status \in StatusValues, errorInProps \in ErrorValues, errorInCustom \in ErrorValues :
             call = PendingSpan(RawSpan(TRUE, hasStart, IF hasStart THEN start ELSE 0,
                                        hasEnd, IF hasEnd THEN end ELSE 0,
                                        status, errorInProps, errorInCustom))

NextSpan == NormalizeSpan

SpecSpan == InitSpan /\ [][NextSpan]_vars

-----------------------------------------------------------------------------
(* Claims about normalizeSpan *)

\* the three signals of an error: the status field is "error", an error
\* object is in additionalProperties, an error object is in custom
StatusSignal == call.span.hasAttributes /\ call.span.status = Given(<<"e", "r", "r", "o", "r">>)

PropsSignal == call.span.hasAttributes /\ call.span.errorInProps.kind = "object"

CustomSignal == call.span.hasAttributes /\ call.span.errorInCustom.kind = "object"

BothTimestamps == call.span.hasAttributes /\ call.span.hasStart /\ call.span.hasEnd

\* C22: the duration is endTimestamp - startTimestamp when both timestamps
\* are there and absent when one is missing; it is 0 only when both are
\* there and equal.
C22_DurationFromTimestamps ==
    call.fn = "normalizeSpan" =>
        /\ BothTimestamps =>
              /\ call.result.duration.has
              /\ call.result.duration.ms = call.span.end - call.span.start
        /\ ~BothTimestamps => ~call.result.duration.has
        /\ (call.result.duration.has /\ call.result.duration.ms = 0) =>
              (BothTimestamps /\ call.span.start = call.span.end)

\* a span with a start and no end was normalized
C22_Witness ==
    /\ call.fn = "normalizeSpan"
    /\ call.span.hasAttributes /\ call.span.hasStart /\ ~call.span.hasEnd
    /\ ~call.result.duration.has
-----------------------------------------------------------------------------
(* normalizeLog (src/unnamed/part_001), the fields traceId and host          *)

\* str.startsWith(prefix)
startsWith(str, prefix) ==
    Len(str) >= Len(prefix) /\ SubSeq(str, 1, Len(prefix)) = prefix

\* str.split(sep), sep one character: the pieces between the separators
split(str, sep) ==
    LET at      == {i \in 1..Len(str) : str[i] = sep}
        nth(k)  == IF k = 0 THEN 0
                   ELSE IF k > Cardinality(at) THEN Len(str) + 1
                   ELSE CHOOSE i \in at : Cardinality({j \in at : j < i}) = k - 1
    IN  [k \in 1..(Cardinality(at) + 1) |-> SubSeq(str, nth(k - 1) + 1, nth(k) - 1)]

\* tags.find(t => t.startsWith(prefix)): the place of the first such tag,
\* 0 when there is none
find(tags, prefix) ==
    IF \E i \in DOMAIN tags : startsWith(tags[i], prefix)
    THEN CHOOSE i \in DOMAIN tags :
             startsWith(tags[i], prefix) /\ \A j \in 1..(i - 1) : ~startsWith(tags[j], prefix)
    ELSE 0

\* tags.find(t => t.startsWith(prefix))?.split(":")[1]
tagValueOf(tags, prefix) ==
    IF find(tags, prefix) = 0 THEN Omitted
    ELSE Given(split(tags[find(tags, prefix)], ":")[2])

\* a log of the backend, the fields traceId and host are read from:
\* attributes or none, in them the nested attributes or none with
\* "dd.trace_id", "trace_id" and "host", and the tags or none
TaggedLog(hasAttributes, hasNested, ddTraceId, traceId, host, hasTags, tags) ==
    [hasAttributes |-> hasAttributes, hasNested |-> hasNested, ddTraceId |-> ddTraceId,
     traceId |-> traceId, host |-> host, hasTags |-> hasTags, tags |-> tags]

\* const attributes = log.attributes?.attributes ?? {}: the value under key
nestedOf(log, key) ==
    IF ~(log.hasAttributes /\ log.hasNested) THEN Omitted
    ELSE IF key = "dd.trace_id" THEN log.ddTraceId
    ELSE IF key = "trace_id" THEN log.traceId
    ELSE log.host

\* const tags = log.attributes?.tags ?? []
tagsOf(log) == IF log.hasAttributes /\ log.hasTags THEN log.tags ELSE <<>>

\* a ?? b of optional strings
orElse(a, b) == IF a.has THEN a ELSE b

\* normalizeLog, the fields traceId and host
traceIdOf(log) ==
    orElse(nestedOf(log, "dd.trace_id"),
           orElse(nestedOf(log, "trace_id"),
                  tagValueOf(tagsOf(log), <<"t", "r", "a", "c", "e", "_", "i", "d", ":">>)))

hostOf(log) ==
    orElse(nestedOf(log, "host"), tagValueOf(tagsOf(log), <<"h", "o", "s", "t", ":">>))

-----------------------------------------------------------------------------
(* The callers of normalizeLog: logs with and without nested attributes and  *)
(* with up to MaxTags tags                                                   *)

\* the most tags of a log
MaxTags == 2

TracePrefix == <<"t", "r", "a", "c", "e", "_", "i", "d", ":">>

HostPrefix == <<"h", "o", "s", "t", ":">>

\* tags of a trace id, of no trace id, of hosts, one of them with a port, of
\* an IPv6 address, and tags of other keys
LogTags ==
    {TracePrefix \o <<"7">>, TracePrefix, <<"t", "r", "a", "c", "e", "_", "i", "d">>,
     HostPrefix \o <<"w">>, HostPrefix \o <<"w", ":", "8", "0">>,
     HostPrefix \o <<":", ":", "1">>, <<"e", "n", "v", ":", "p">>}

NestedValues == {Omitted, Given(<<>>), Given(<<"9">>)}

\* the call to come, of the log
PendingLog(log) ==
    [fn |-> "none", log |-> log, result |-> [traceId |-> Omitted, host |-> Omitted]]

\* logs.push(normalizeLog(log))
NormalizeLog ==
    /\ call.fn = "none"
    /\ call' = [call EXCEPT !.fn = "normalizeLog",
                   !.result = [traceId |-> traceIdOf(call.log), host |-> hostOf(call.log)]]
    /\ UNCHANGED tailVars

InitLog ==
    /\ seenIds = <<>>
    /\ lastTimestamp = toISOString(StartInstant)
    /\ running = TRUE
    /\ hasOnError = FALSE
    /\ timers = 0
    /\ inflight = 1
    /\ polls = 0
    /\ nextId = 1
    /\ cycle = NoCycle
    /\ onLogIds = {}
    /\ \/ call = PendingLog(TaggedLog(FALSE, FALSE, Omitted, Omitted, Omitted, FALSE, <<>>))
       \/ \E n \in 0..MaxTags : \E tags \in [1..n -> LogTags] :
             \/ call = PendingLog(TaggedLog(TRUE, FALSE, Omitted, Omitted, Omitted, TRUE, tags))
             \/ \E ddTraceId \in NestedValues, traceId \in NestedValues, host \in NestedValues :
                   \/ call = PendingLog(TaggedLog(TRUE, TRUE, ddTraceId, traceId, host, TRUE, tags))
                   \/ /\ n = 0
                      /\ call = PendingLog(TaggedLog(TRUE, TRUE, ddTraceId, traceId, host,
                                                     FALSE, <<>>))

NextLog == NormalizeLog

SpecLog == InitLog /\ [][NextLog]_vars

-----------------------------------------------------------------------------
(* Claims about normalizeLog *)

\* the value of the first tag of the log of the form prefix<value>, when
\* there is one: what stands behind the prefix
FirstTagValue(prefix) ==
    LET tags == tagsOf(call.log)
        i    == find(tags, prefix)
    IN  IF i = 0 THEN Omitted
        ELSE Given(SubSeq(tags[i], Len(prefix) + 1, Len(tags[i])))

\* the first of the sources that is there
FirstPresent(sources) ==
    IF \E i \in DOMAIN sources : sources[i].has
    THEN sources[CHOOSE i \in DOMAIN sources :
                     sources[i].has /\ \A j \in 1..(i - 1) : ~sources[j].has]
    ELSE Omitted

\* C23: traceId is the first that is there of the nested attribute
\* dd.trace_id, the nested attribute trace_id and the value of the first tag
\* trace_id:<value>, and absent when none is; host likewise of the nested
\* attribute host and the value of the first tag host:<value>.
C23_TraceIdAndHostByPriority ==
    call.fn = "normalizeLog" =>
        /\ call.result.traceId =
              FirstPresent(<<nestedOf(call.log, "dd.trace_id"), nestedOf(call.log, "trace_id"),
                             FirstTagValue(TracePrefix)>>)
        /\ call.result.host =
              FirstPresent(<<nestedOf(call.log, "host"), FirstTagValue(HostPrefix)>>)

\* no tag of the log has a second colon
OneColonTags ==
    \A i \in DOMAIN tagsOf(call.log) : Len(split(tagsOf(call.log)[i], ":")) <= 2

\* The part of C23 the code keeps: the priority holds for logs whose tag
\* values have no colon.
C23_PriorityWithoutColons ==
    (call.fn = "normalizeLog" /\ OneColonTags) =>
        /\ call.result.traceId =
              FirstPresent(<<nestedOf(call.log, "dd.trace_id"), nestedOf(call.log, "trace_id"),
                             FirstTagValue(TracePrefix)>>)
        /\ call.result.host =
              FirstPresent(<<nestedOf(call.log, "host"), FirstTagValue(HostPrefix)>>)

\* a log without the nested attributes and with the tags env:p and host:w
\* was normalized: its host is w
C23_TagReached ==
    /\ call.fn = "normalizeLog" /\ OneColonTags
    /\ ~call.log.hasNested
    /\ call.log.tags = <<<<"e", "n", "v", ":", "p">>, HostPrefix \o <<"w">>>>
    /\ call.result.host = Given(<<"w">>)
    /\ call.result.traceId = Omitted
-----------------------------------------------------------------------------
(* handleLogsCommand and handleMetricsCommand (src/cli.ts): the commands     *)
(* that need a parameter                                                     *)

DashDash == <<"-", "-">>

\* result[key]: the value set last under the key, in the pairs set so far
lookup(result, key) ==
    IF \E i \in DOMAIN result : result[i].key = key
    THEN Given(result[CHOOSE i \in DOMAIN result :
                          result[i].key = key
                          /\ \A j \in (i + 1)..Len(result) : result[j].key # key].value)
    ELSE Omitted

\* parseArgs from the argument at position i: an argument that starts with
\* -- sets its key to the next argument, which is then passed over, unless
\* that is missing, empty or starts with -- itself: then to "true"
RECURSIVE parseArgsFrom(_, _, _)
parseArgsFrom(args, i, result) ==
    IF i > Len(args) THEN result
    ELSE IF ~startsWith(args[i], DashDash) THEN parseArgsFrom(args, i + 1, result)
    ELSE IF i + 1 <= Len(args) /\ args[i + 1] # <<>> /\ ~startsWith(args[i + 1], DashDash)
    THEN parseArgsFrom(args, i + 2,
             Append(result, [key |-> SubSeq(args[i], 3, Len(args[i])), value |-> args[i + 1]]))
    ELSE parseArgsFrom(args, i + 1,
             Append(result, [key |-> SubSeq(args[i], 3, Len(args[i])),
                             value |-> <<"t", "r", "u", "e">>]))

parseArgs(args) == parseArgsFrom(args, 1, <<>>)

\* a variant that only takes an empty value as missing
isMissingWhenEmpty(value) == value.has /\ value.str = <<>>

\* if (!facet): the value is undefined or ""
isMissing(value) == ~Truthy(value)

\* what a command did: the error printError reported, after which the
\* process has exited, and the operation called on the backend
Outcome(error, operation) ==
    [error |-> error, exited |-> error # "", operation |-> operation]

\* a command that needs the value: printError and return when it is
\* missing, the operation otherwise
requireThen(value, error, operation) ==
    IF isMissing(value) THEN Outcome(error, "") ELSE Outcome("", operation)

\* case "agg" of handleLogsCommand
logsAgg(args) ==
    requireThen(lookup(parseArgs(args), <<"f", "a", "c", "e", "t">>),
                "Missing required --facet flag", "aggregateLogs")

\* case "trace": const traceId = parsed.id ?? parsed.trace
logsTrace(args) ==
    requireThen(orElse(lookup(parseArgs(args), <<"i", "d">>),
                       lookup(parseArgs(args), <<"t", "r", "a", "c", "e">>)),
                "Missing required --id or --trace flag", "getLogsByTraceId")

\* case "context"
logsContext(args) ==
    requireThen(lookup(parseArgs(args), <<"t", "i", "m", "e", "s", "t", "a", "m", "p">>),
                "Missing required --timestamp flag", "getLogContext")

\* case "query" of handleMetricsCommand
metricsQuery(args) ==
    requireThen(lookup(parseArgs(args), <<"q", "u", "e", "r", "y">>),
                "Missing required --query flag", "queryMetrics")

-----------------------------------------------------------------------------
(* The callers: a command and up to MaxArgs arguments                        *)

\* the most arguments of a command
MaxArgs == 3

Flag(key) == DashDash \o key

\* the flags of the needed parameters, another flag, a value and ""
ArgWords ==
    {Flag(<<"f", "a", "c", "e", "t">>), Flag(<<"i", "d">>), Flag(<<"t", "r", "a", "c", "e">>),
     Flag(<<"t", "i", "m", "e", "s", "t", "a", "m", "p">>), Flag(<<"q", "u", "e", "r", "y">>),
     Flag(<<"f", "r", "o", "m">>), <<"v">>, <<>>}

Commands == {"logs agg", "logs trace", "logs context", "metrics query"}

\* the call to come, of the command and its arguments
PendingCommand(command, args) ==
    [fn |-> "none", command |-> command, args |-> args, result |-> Outcome("", "")]

HandleLogsAgg ==
    /\ call.fn = "none" /\ call.command = "logs agg"
    /\ call' = [call EXCEPT !.fn = "handleLogsCommand", !.result = logsAgg(call.args)]
    /\ UNCHANGED tailVars

HandleLogsTrace ==
    /\ call.fn = "none" /\ call.command = "logs trace"
    /\ call' = [call EXCEPT !.fn = "handleLogsCommand", !.result = logsTrace(call.args)]
    /\ UNCHANGED tailVars

HandleLogsContext ==
    /\ call.fn = "none" /\ call.command = "logs context"
    /\ call' = [call EXCEPT !.fn = "handleLogsCommand", !.result = logsContext(call.args)]
    /\ UNCHANGED tailVars

HandleMetricsQuery ==
    /\ call.fn = "none" /\ call.command = "metrics query"
    /\ call' = [call EXCEPT !.fn = "handleMetricsCommand", !.result = metricsQuery(call.args)]
    /\ UNCHANGED tailVars

InitCommand ==
    /\ seenIds = <<>>
    /\ lastTimestamp = toISOString(StartInstant)
    /\ running = TRUE
    /\ hasOnError = FALSE
    /\ timers = 0
    /\ inflight = 1
    /\ polls = 0
    /\ nextId = 1
    /\ cycle = NoCycle
    /\ onLogIds = {}
    /\ \E command \in Commands, n \in 0..MaxArgs : \E args \in [1..n -> ArgWords] :
          call = PendingCommand(command, args)

NextCommand == HandleLogsAgg \/ HandleLogsTrace \/ HandleLogsContext \/ HandleMetricsQuery

SpecCommand == InitCommand /\ [][NextCommand]_vars

-----------------------------------------------------------------------------
(* Claims about the commands *)

\* the flag of the key is among the arguments of the call
HasFlag(key) == \E i \in DOMAIN call.args : call.args[i] = Flag(key)

\* the parameter the command of the call needs is missing
RequiredMissing ==
    \/ call.command = "logs agg" /\ ~HasFlag(<<"f", "a", "c", "e", "t">>)
    \/ call.command = "logs trace" /\ ~HasFlag(<<"i", "d">>) /\ ~HasFlag(<<"t", "r", "a", "c", "e">>)
    \/ call.command = "logs context" /\ ~HasFlag(<<"t", "i", "m", "e", "s", "t", "a", "m", "p">>)
    \/ call.command = "metrics query" /\ ~HasFlag(<<"q", "u", "e", "r", "y">>)

\* C24: a command whose needed parameter is missing reports the error and
\* ends, and calls no operation of the backend.
C24_MissingParameterAborts ==
    (call.fn # "none" /\ RequiredMissing) =>
        /\ call.result.error # ""
        /\ call.result.exited
        /\ call.result.operation = ""

\* a trace lookup with the arguments --from v and no trace id was refused
C24_Witness ==
    /\ call.fn = "handleLogsCommand" /\ call.command = "logs trace"
    /\ call.args = <<Flag(<<"f", "r", "o", "m">>), <<"v">>>>
    /\ call.result = Outcome("Missing required --id or --trace flag", "")
-----------------------------------------------------------------------------
(* Claims about the forest of buildTraceTree: the order of the children and  *)
(* the places of the spans                                                   *)

\* the time of the node of a span id, and the position of its span in the list
NodeTime(id) == timeOf(call.spans, spanMapOf(call.spans), id)

NodePosition(id) == spanMapOf(call.spans)[id]

\* the children of every node of the forest are in ascending order of time,
\* those of equal timestamps in the order of their spans in the list
ChildrenSorted ==
    \A n \in ForestNodes :
        LET list == call.result.children[n]
        IN  \A i, j \in 1..Len(list) : i < j =>
                /\ (NodeTime(list[i]).valid /\ NodeTime(list[j]).valid) =>
                      NodeTime(list[i]).ms <= NodeTime(list[j]).ms
                /\ NodeTime(list[i]) = NodeTime(list[j]) =>
                      NodePosition(list[i]) <= NodePosition(list[j])

\* C25: in the forest returned, the children of every node reached from a
\* root are in ascending order of their span timestamps, children of equal
\* timestamps in the order of their spans in the input list.
C25_ChildrenAscendingStable == TreeReturned => ChildrenSorted

\* every span of the list has a timestamp
AllTimed == \A i \in 1..Len(call.spans) : call.spans[i].timestamp # <<>>

\* The part of C25 the code keeps: the order holds for a list of pairwise
\* distinct span ids in which every span has a timestamp.
C25_SortedWhenTimed ==
    (TreeReturned /\ AllTimed /\ DistinctSpanIds) => ChildrenSorted

\* a list of distinct span ids, one of them without timestamp, came back
\* with a later child before an earlier one
C25_UntimedReached ==
    /\ TreeReturned /\ DistinctSpanIds /\ ~AllTimed
    /\ \E n \in ForestNodes :
          LET list == call.result.children[n]
          IN  \E i, j \in 1..Len(list) :
                  /\ i < j
                  /\ NodeTime(list[i]).valid /\ NodeTime(list[j]).valid
                  /\ NodeTime(list[i]).ms > NodeTime(list[j]).ms

\* a root came back with three children that stood in descending order of
\* time in the list
C25_TimedReached ==
    /\ TreeReturned /\ AllTimed /\ DistinctSpanIds /\ Len(call.spans) = 4
    /\ \E n \in ForestNodes :
          /\ Len(call.result.children[n]) = 3
          /\ NodePosition(call.result.children[n][1]) > NodePosition(call.result.children[n][2])
          /\ NodeTime(call.result.children[n][1]).ms < NodeTime(call.result.children[n][3]).ms

\* how often the span id stands in the forest: as a root, and as a child of
\* a node of the forest
RECURSIVE countIn(_, _, _)
countIn(list, id, n) ==
    IF n = 0 THEN 0 ELSE countIn(list, id, n - 1) + (IF list[n] = id THEN 1 ELSE 0)

RECURSIVE sumOver(_, _)
sumOver(nodes, id) ==
    IF nodes = {} THEN 0
    ELSE LET n == CHOOSE m \in nodes : TRUE
         IN  countIn(call.result.children[n], id, Len(call.result.children[n]))
                + sumOver(nodes \ {n}, id)

PlacesOf(id) ==
    countIn(call.result.roots, id, Len(call.result.roots)) + sumOver(ForestNodes, id)

\* C29: for a list of pairwise distinct span ids, every span of the list
\* stands exactly once in the forest returned, as a root or below one, also
\* when the parents form a cycle or a span is its own parent.
C29_EverySpanOnce ==
    (TreeReturned /\ DistinctSpanIds) => \A id \in ListedIds : PlacesOf(id) = 1

\* the span ids reached from id by following parentId within the list
RECURSIVE ancestors(_)
ancestors(seen) ==
    LET more == seen \cup {call.spans[i].parentId : i \in
                    {k \in 1..Len(call.spans) :
                        /\ call.spans[k].spanId \in seen
                        /\ HasParentId(call.spans[k])
                        /\ call.spans[k].parentId \in ListedIds}}
    IN  IF more = seen THEN seen ELSE ancestors(more)

\* the span of the id is a root of the list, or has one above it
UnderRoot(id) ==
    \E i \in 1..Len(call.spans) :
        /\ call.spans[i].spanId \in ancestors({id})
        /\ ~(HasParentId(call.spans[i]) /\ call.spans[i].parentId \in ListedIds)

\* The part of C29 the code keeps: of a list of pairwise distinct span ids,
\* a span stands once in the forest when its parents lead to a root, and
\* not at all when they lead into a cycle.
C29_OnceUnderARoot ==
    (TreeReturned /\ DistinctSpanIds) =>
        \A id \in ListedIds : PlacesOf(id) = (IF UnderRoot(id) THEN 1 ELSE 0)

\* a list of distinct ids came back with a root, a child of it, and two
\* spans that are each other's parent and stand nowhere in the forest
C29_CycleBesideTree ==
    /\ TreeReturned /\ DistinctSpanIds /\ Len(call.spans) = 4
    /\ Len(call.result.roots) = 1
    /\ Cardinality(ForestNodes) = 2
    /\ \E a, b \in ListedIds \ ForestNodes :
          /\ a # b
          /\ a \in Range(call.result.children[b])
          /\ b \in Range(call.result.children[a])
-----------------------------------------------------------------------------
(* getTraceHierarchy (src/lib/output.ts): the spans of a trace, their tree   *)
(* and the total duration                                                    *)

\* a span of the response: the span with its ids; the spanId is held as
\* normalizeSpan gives it, "" (0) for a span without id
FetchedSpan(span, spanId, parent) == [span |-> span, spanId |-> spanId, parent |-> parent]

\* spans.push(normalizeSpan(span)), for every span of response.data
normalizedSpans(response) ==
    IF ~response.hasData THEN <<>>
    ELSE [i \in DOMAIN response.data |->
            [spanId    |-> response.data[i].spanId,
             hasParent |-> response.data[i].parent.has,
             parentId  |-> response.data[i].parent.id,
             timestamp |-> normalizeSpan(response.data[i].span).timestamp,
             duration  |-> normalizeSpan(response.data[i].span).duration]]

\* spans.filter(s => !s.parentId || !spans.some(p => p.spanId === s.parentId)),
\* as the positions of the spans kept
rootSpans(spans) ==
    {i \in DOMAIN spans :
        \/ ~HasParentId(spans[i])
        \/ ~\E p \in DOMAIN spans : spans[p].spanId = spans[i].parentId}

\* Math.max of the numbers of a non-empty set
max(numbers) == CHOOSE m \in numbers : \A n \in numbers : n <= m

\* if (rootSpans.length > 0) totalDuration = Math.max(...rootSpans.map(s => s.duration ?? 0))
totalDurationOf(spans) ==
    LET roots == rootSpans(spans)
    IN  IF roots = {} THEN [has |-> FALSE, ms |-> 0]
        ELSE [has |-> TRUE,
              ms  |-> max({IF spans[i].duration.has THEN spans[i].duration.ms ELSE 0 : i \in roots})]

\* getTraceHierarchy, of the response of listSpansGet: what it returns, or
\* raised when buildTraceTree raises
getTraceHierarchy(response) ==
    LET spans == normalizedSpans(response)
    IN  {[raised        |-> tree.raised,
          spans         |-> spans,
          tree          |-> tree,
          totalSpans    |-> IF tree.raised THEN 0 ELSE Len(spans),
          totalDuration |-> IF tree.raised THEN [has |-> FALSE, ms |-> 0]
                            ELSE totalDurationOf(spans)] :
            tree \in buildTraceTree(spans)}

-----------------------------------------------------------------------------
(* The callers of getTraceHierarchy: one call, for a response without data   *)
(* or with up to MaxTraceSpans spans, which the backend sorted by timestamp  *)

MaxTraceSpans == 3

\* what the end of a span is to its start: none, before it, at it, after it
EndOffsets == {-2, 0, 5, 9}

\* the span at position i: it starts at the i-th instant
TraceSpanAt(i, spanId, parent, hasEnd, offset) ==
    FetchedSpan(RawSpan(TRUE, TRUE, StartInstant + 10 * i, hasEnd,
                        IF hasEnd THEN StartInstant + 10 * i + offset ELSE 0,
                        Omitted, NoValue, NoValue),
                spanId, parent)

PendingHierarchy(response) ==
    [fn |-> "none", response |-> response,
     result |-> [raised |-> FALSE, spans |-> <<>>,
                 tree |-> [raised |-> FALSE, roots |-> <<>>, children |-> << >>, depth |-> << >>],
                 totalSpans |-> 0, totalDuration |-> [has |-> FALSE, ms |-> 0]]]

\* const hierarchy = await getTraceHierarchy(spansApi, traceId, options)
GetTraceHierarchy ==
    /\ call.fn = "none"
    /\ \E result \in getTraceHierarchy(call.response) :
          call' = [call EXCEPT !.fn = "getTraceHierarchy", !.result = result]
    /\ UNCHANGED tailVars

InitHierarchy ==
    /\ seenIds = <<>>
    /\ lastTimestamp = toISOString(StartInstant)
    /\ running = TRUE
    /\ hasOnError = FALSE
    /\ timers = 0
    /\ inflight = 1
    /\ polls = 0
    /\ nextId = 1
    /\ cycle = NoCycle
    /\ onLogIds = {}
    /\ \/ call = PendingHierarchy([hasData |-> FALSE, data |-> <<>>])
       \/ \E n \in 0..MaxTraceSpans :
          \E ids \in SpanIdLists(n), parents \in [1..n -> ParentIds],
             ends \in [1..n -> {[has |-> FALSE, offset |-> 0]}
                                  \cup {[has |-> TRUE, offset |-> o] : o \in EndOffsets}] :
             call = PendingHierarchy(
                       [hasData |-> TRUE,
                        data |-> [i \in 1..n |->
                                    TraceSpanAt(i, ids[i], parents[i], ends[i].has, ends[i].offset)]])

NextHierarchy == GetTraceHierarchy

SpecHierarchy == InitHierarchy /\ [][NextHierarchy]_vars

-----------------------------------------------------------------------------
(* Claims about getTraceHierarchy *)

HierarchyReturned == call.fn = "getTraceHierarchy" /\ ~call.result.raised

\* the spans fetched, as the call normalized them
Fetched == call.result.spans

\* the spans of the root level: those without parentId (hasParentId tells
\* whether a span has one) or whose parentId is the id of no span fetched
RootLevel(hasParentId(_)) ==
    {i \in DOMAIN Fetched :
        ~hasParentId(Fetched[i]) \/ \A p \in DOMAIN Fetched : Fetched[p].spanId # Fetched[i].parentId}

ParentIdGiven(span) == span.hasParent

\* the durations that the spans of the positions have
DurationsOf(positions) == {Fetched[i].duration.ms : i \in {k \in positions : Fetched[k].duration.has}}

\* C26: the totalDuration that getTraceHierarchy reports is the maximum of
\* the durations of the spans of the root level, those without parentId or
\* whose parentId is the id of no span fetched; it is absent when no span
\* was fetched.
C26_MaxOfRootDurations ==
    HierarchyReturned =>
        /\ Len(Fetched) = 0 => ~call.result.totalDuration.has
        /\ call.result.totalDuration.has =>
              /\ DurationsOf(RootLevel(ParentIdGiven)) # {}
              /\ call.result.totalDuration.ms = max(DurationsOf(RootLevel(ParentIdGiven)))
        /\ DurationsOf(RootLevel(ParentIdGiven)) # {} => call.result.totalDuration.has

\* The part of C26 the code keeps: with the parentId "" counted as no
\* parentId and a span without duration counted as 0, the total is the
\* maximum over the spans of the root level, and it is absent when there is
\* none, as when no span was fetched.
C26_MaxOverRootsWithDefaults ==
    HierarchyReturned =>
        LET roots == RootLevel(HasParentId)
        IN  /\ call.result.totalDuration.has <=> roots # {}
            /\ roots # {} =>
                  call.result.totalDuration.ms =
                      max({IF Fetched[i].duration.has THEN Fetched[i].duration.ms ELSE 0 : i \in roots})

\* a root of the duration 5 came back with a child of the duration 9, and
\* the total is 5
C26_ChildLongerReached ==
    /\ HierarchyReturned /\ Len(Fetched) = 2
    /\ RootLevel(HasParentId) = {1}
    /\ Fetched[1].duration = [has |-> TRUE, ms |-> 5]
    /\ Fetched[2].duration = [has |-> TRUE, ms |-> 9]
    /\ call.result.totalDuration = [has |-> TRUE, ms |-> 5]

\* the one span fetched has no duration, and the total is 0
C26_ZeroReached ==
    /\ HierarchyReturned /\ Len(Fetched) = 1
    /\ ~Fetched[1].duration.has
    /\ call.result.totalDuration = [has |-> TRUE, ms |-> 0]
-----------------------------------------------------------------------------
(* The backend of a burst: records stamped to the second, more of one second *)
(* than seenIds keeps.  The backend does not fix the order of records of one *)
(* timestamp: a query from that second is answered with a page of records of *)
(* the second, one never returned before or the first one once more.         *)

BurstInstant == StartInstant + MsPerSecond

\* the query answered with a page of records of the second not returned before
PollResolveBurst ==
    /\ polls < MaxBulkPolls
    /\ Resolve(Page(nextId, BurstInstant), 0, FALSE, FALSE)
    /\ polls' = polls + 1
    /\ nextId' = nextId + PageLimit

\* the query answered with the first page of the second once more
PollResolveFirst ==
    /\ polls > 0
    /\ Resolve(Page(1, BurstInstant), 0, FALSE, FALSE)
    /\ UNCHANGED <<polls, nextId>>

NextBurst == PollResolveBurst \/ PollResolveFirst \/ TimerFire \/ stop

SpecBurst == InitTail /\ [][NextBurst]_vars

-----------------------------------------------------------------------------
(* Claims about the records a tail session hands to onLog *)

\* the step is the end of a poll cycle whose query was answered
ResolveStep == cycle'.kind = "resolved" /\ inflight' < inflight

\* the cycle that ends with the step calls onLog with ids it was never called
\* with before, and with none of them twice
OnlyNewIds ==
    /\ \A i \in 1..Len(cycle'.delivered) : cycle'.delivered[i].id \notin onLogIds
    /\ \A i, j \in 1..Len(cycle'.delivered) :
          cycle'.delivered[i].id = cycle'.delivered[j].id => i = j

\* C27: within one tail session onLog is called with no record id more than
\* once, over any sequence of polls, also when a poll returns the records of
\* the watermark timestamp again and after seenIds was cut.
C27_NoIdTwice == [][ResolveStep => OnlyNewIds]_vars

\* The part of C27 the code keeps: no id is handed over twice as long as
\* seenIds holds every id handed over, that is until the first cut.
C27_OnceUntilCut ==
    [][(ResolveStep /\ onLogIds \subseteq Range(seenIds)) => OnlyNewIds]_vars

\* after the cut of seenIds the first page of the second was returned once
\* more, and its records were handed to onLog again
C27_RedeliveryReached ==
    /\ FinishedCycle /\ polls > PageLimit
    /\ Len(seenIds) = SeenIdsKeep + PageLimit
    /\ Len(cycle.delivered) = PageLimit
    /\ cycle.delivered[1].id = 1
    /\ 1 \in onLogIds
-----------------------------------------------------------------------------
(* Claims about the rescheduling of poll *)

\* the step is the end of a poll cycle, its query answered or failed
CycleEndStep == cycle'.kind \in {"resolved", "rejected"} /\ inflight' < inflight

\* C30: while the session is running, every poll cycle that finishes arms
\* the next poll, also when onLog raises for a record or onError raises.
C30_EveryCycleReschedules == [][(CycleEndStep /\ running) => timers' = timers + 1]_vars

\* The part of C30 the code keeps: the next poll is armed after every cycle
\* of a running session out of which no exception leaves, so also when onLog
\* raises, and not when onError raises.
C30_UnlessOnErrorRaises ==
    [][(CycleEndStep /\ running) =>
          (timers' = IF cycle'.escaped THEN timers ELSE timers + 1)]_vars

\* onLog raised for a record, onError was called and returned, and the next
\* poll is armed
C30_OnLogRaisedReached ==
    /\ cycle.kind = "resolved" /\ cycle.threw /\ cycle.onErrorCalled /\ ~cycle.escaped
    /\ running /\ timers = 1 /\ inflight = 0

\* onError raised: the session is running, and no poll is armed or in flight
C30_LoopDeadReached ==
    /\ FinishedCycle /\ cycle.escaped
    /\ running /\ timers = 0 /\ inflight = 0
-----------------------------------------------------------------------------
(* The backend as a store: it holds the records 1 .. nextId - 1 and answers  *)
(* a query with the first PageLimit records at or after filter.from, in the  *)
(* order of their timestamps.  The first MaxEarly records have a millisecond *)
(* each; then PageLimit records of one and the same millisecond come in      *)
(* together; the MaxLate records after them have a later millisecond each.   *)
(* The callbacks do not raise and no query fails.                            *)

MaxEarly == 2
MaxLate == 2

\* the id of the last record of the full page of one millisecond
LastOfFullPage == MaxEarly + PageLimit

\* the instant of the record of the id
StoreInstant(id) ==
    IF id <= MaxEarly THEN StartInstant + id
    ELSE IF id <= LastOfFullPage THEN StartInstant + MaxEarly + 1
    ELSE StartInstant + MaxEarly + 1 + (id - LastOfFullPage)

\* filter: { from: lastTimestamp }: the record of the id is at or after from
AtOrAfter(id, from) == StrGE(toISOString(StoreInstant(id)), from)

\* sort: "timestamp", page: { limit: 100 }: what the store answers the query with
StorePage(from, held) ==
    LET matching == {id \in 1..held : AtOrAfter(id, from)}
        first    == IF matching = {} THEN 0
                    ELSE CHOOSE id \in matching : \A other \in matching : id <= other
        size     == IF Cardinality(matching) < PageLimit THEN Cardinality(matching) ELSE PageLimit
    IN  [hasData |-> TRUE,
         data    |-> [k \in 1..size |-> RawLog(TRUE, first + k - 1, TRUE, StoreInstant(first + k - 1))]]

\* records come in: one, or the PageLimit records of one millisecond together
Ingest ==
    /\ nextId <= LastOfFullPage + MaxLate
    /\ nextId' = IF nextId = MaxEarly + 1 THEN LastOfFullPage + 1 ELSE nextId + 1
    /\ UNCHANGED <<seenIds, lastTimestamp, running, hasOnError, timers, inflight, polls,
                   cycle, onLogIds, call>>

\* the query answered by the store
PollResolveStore ==
    /\ Resolve(StorePage(lastTimestamp, nextId - 1), 0, FALSE, FALSE)
    /\ UNCHANGED <<polls, nextId>>

NextStore == Ingest \/ PollResolveStore \/ TimerFire \/ stop

SpecStore == InitTail /\ [][NextStore]_vars

\* await logsApi.listLogs(...) settles: the poll in flight goes on, which in
\* this backend is a step of PollResolveStore
QuerySettles == inflight > 0 /\ inflight' = inflight - 1

\* setTimeout fires the poll it armed, and the backend answers every query
SpecStoreFair == SpecStore /\ WF_vars(TimerFire) /\ WF_inflight(QuerySettles)

-----------------------------------------------------------------------------
(* Claims about what a tail session delivers in the end *)

\* the store holds the record of the id, at or after the watermark
HeldAtOrAfterWatermark(id) == id < nextId /\ AtOrAfter(id, lastTimestamp)

\* the records up to the id that the store holds at or after the watermark
\* were all handed to onLog
DeliveredUpTo(last) ==
    \A id \in 1..last : HeldAtOrAfterWatermark(id) => id \in onLogIds

\* C28: while the session is running and the backend answers, every record
\* the backend holds at or after the watermark is handed to onLog in the
\* end, also when a page size of records or more share one timestamp: the
\* session comes again and again to a state with no such record left over.
C28_EveryRecordDelivered == []<>(~running \/ DeliveredUpTo(LastOfFullPage + MaxLate))

\* The part of C28 the code keeps: the records up to the last one of a full
\* page of one timestamp are handed to onLog in the end.
C28_UpToTheFullPage == []<>(~running \/ DeliveredUpTo(LastOfFullPage))

\* the watermark is the timestamp of the full page, a poll from it was
\* answered with that page and handed nothing to onLog, and the store holds
\* a later record that onLog never saw
C28_StarvedReached ==
    /\ running /\ FinishedCycle
    /\ lastTimestamp = toISOString(StoreInstant(LastOfFullPage))
    /\ Len(cycle.data) = PageLimit /\ cycle.delivered = <<>>
    /\ nextId > LastOfFullPage + 1
    /\ LastOfFullPage \in onLogIds
    /\ (LastOfFullPage + 1) \notin onLogIds
====
